---- MODULE Spec2Model ----
(***************************************************************************)
(* Model of structural_analysis.beam_theory.BeamTheory.euler_bernoulli and *)
(* of structural_analysis.column_theory.ColumnTheory.euler_buckling.       *)
(*                                                                         *)
(* One call of euler_bernoulli is a run of the state machine: Init draws   *)
(* the arguments, and the actions are the statements of the method in      *)
(* program order (the four validation ifs, the creation of the stations,   *)
(* the dispatch to one closed-form sub-solver, the maxima and the return). *)
(*                                                                         *)
(* Numbers.  The code computes in IEEE double precision (binary64).        *)
(*                                                                         *)
(* euler_buckling is modelled in binary64: every *, /, ** and sqrt of the  *)
(* method rounds as the code's does, with inf, nan, the subnormals and the *)
(* two exceptions (OverflowError, ZeroDivisionError) of a Python float.    *)
(*                                                                         *)
(* euler_bernoulli computes its closed forms over exact rationals <<n, d>> *)
(* (d > 0, in lowest terms), so a deflection, moment or shear of the model *)
(* is the real number the code's result approximates.  A station is the    *)
(* triple <<n, d, f>> of that real number and of the binary64 f that       *)
(* np.linspace computes for it: the formulas read n/d, and the branches on *)
(* the side of the load (xi <= a, xi < a, xi > a) are decided on f, as in  *)
(* the code.                                                               *)
(***************************************************************************)
EXTENDS Integers, Sequences, FiniteSets

\* --------------------------------------------------------------- bounds
MaxLen == 2      \* lengths are drawn from -1 .. MaxLen
MaxStiff == 2    \* E and second_moment are drawn from 0 .. MaxStiff
MaxMag == 2      \* load magnitudes are drawn from -MaxMag .. MaxMag
MaxN == 5        \* station counts are drawn from 0 .. MaxN
MaxStations == 102   \* with a centre load, from 2 .. MaxStations

\* --------------------------------------------------- rational arithmetic
Abs(n) == IF n < 0 THEN -n ELSE n

RECURSIVE Gcd(_, _)
Gcd(a, b) == IF b = 0 THEN a ELSE Gcd(b, a % b)

\* n/d in lowest terms with a positive denominator (d # 0)
Rat(n, d) ==
    LET g == Gcd(Abs(n), Abs(d))
        s == IF d < 0 THEN -1 ELSE 1
    IN  <<(s * n) \div g, Abs(d) \div g>>

R(k) == <<k, 1>>
Zero == R(0)

RNeg(p) == <<-p[1], p[2]>>
RAbs(p) == <<Abs(p[1]), p[2]>>
RAdd(p, q) ==
    LET g == Gcd(p[2], q[2])
    IN  Rat(p[1] * (q[2] \div g) + q[1] * (p[2] \div g), (p[2] \div g) * q[2])
RSub(p, q) == RAdd(p, RNeg(q))
RMul(p, q) ==
    LET g1 == Gcd(Abs(p[1]), q[2])
        g2 == Gcd(Abs(q[1]), p[2])
    IN  <<(p[1] \div g1) * (q[1] \div g2), (p[2] \div g2) * (q[2] \div g1)>>
\* q # 0
RDiv(p, q) == RMul(p, IF q[1] < 0 THEN <<-q[2], -q[1]>> ELSE <<q[2], q[1]>>)
RSq(p) == RMul(p, p)
RCube(p) == RMul(p, RMul(p, p))

\* a/b < c/d for a, c >= 0 and b, d > 0, by the continued-fraction expansions
\* (no products, so no overflow)
RECURSIVE PosLt(_, _, _, _)
PosLt(a, b, c, d) ==
    IF a \div b # c \div d THEN a \div b < c \div d
    ELSE IF c % d = 0 THEN FALSE
    ELSE IF a % b = 0 THEN TRUE
    ELSE PosLt(d, c % d, b, a % b)

RLt(p, q) ==
    IF p[1] < 0
    THEN IF q[1] < 0 THEN PosLt(-q[1], q[2], -p[1], p[2]) ELSE TRUE
    ELSE IF q[1] < 0 THEN FALSE ELSE PosLt(p[1], p[2], q[1], q[2])
RLe(p, q) == ~RLt(q, p)

\* ======================================================================
\* IEEE binary64 arithmetic
\* ======================================================================
\* A binary64 has a 53-bit mantissa, more than an integer of the model
\* checker holds, so a natural number of any size is the sequence of its
\* digits in base 2^15, the least significant first and the most significant
\* not 0 (0 is the empty sequence).
Base == 2 ^ 15

RECURSIVE BTrim(_)
BTrim(s) ==
    IF s = <<>> THEN s
    ELSE IF s[Len(s)] = 0 THEN BTrim(SubSeq(s, 1, Len(s) - 1))
    ELSE s

RECURSIVE BigOf(_)
BigOf(n) == IF n = 0 THEN <<>> ELSE <<n % Base>> \o BigOf(n \div Base)

Digit(a, i) == IF i <= Len(a) THEN a[i] ELSE 0

\* a + b, and a - b for a >= b (c is the carry)
BAdd(a, b) ==
    LET RECURSIVE AddFrom(_, _)
        AddFrom(i, c) ==
            IF i > Len(a) /\ i > Len(b) THEN (IF c = 0 THEN <<>> ELSE <<c>>)
            ELSE LET t == Digit(a, i) + Digit(b, i) + c
                 IN  <<t % Base>> \o AddFrom(i + 1, t \div Base)
    IN  AddFrom(1, 0)

BSub(a, b) ==
    LET RECURSIVE SubFrom(_, _)
        SubFrom(i, c) ==
            IF i > Len(a) THEN <<>>
            ELSE LET t == a[i] - Digit(b, i) - c
                 IN  IF t < 0 THEN <<t + Base>> \o SubFrom(i + 1, 1)
                     ELSE <<t>> \o SubFrom(i + 1, 0)
    IN  BTrim(SubFrom(1, 0))

\* the sign of a - b
BCmp(a, b) ==
    LET RECURSIVE CmpFrom(_)
        CmpFrom(i) ==
            IF i = 0 THEN 0
            ELSE IF a[i] # b[i] THEN (IF a[i] < b[i] THEN -1 ELSE 1)
            ELSE CmpFrom(i - 1)
    IN  IF Len(a) # Len(b) THEN (IF Len(a) < Len(b) THEN -1 ELSE 1)
        ELSE CmpFrom(Len(a))

\* a * k for a digit k
BMulSmall(a, k) ==
    LET RECURSIVE MulSmallFrom(_, _)
        MulSmallFrom(i, c) ==
            IF i > Len(a) THEN (IF c = 0 THEN <<>> ELSE <<c>>)
            ELSE LET t == a[i] * k + c
                 IN  <<t % Base>> \o MulSmallFrom(i + 1, t \div Base)
    IN  IF k = 0 THEN <<>> ELSE MulSmallFrom(1, 0)

\* a * Base^n
BUp(a, n) ==
    IF a = <<>> \/ n = 0 THEN a ELSE [i \in 1 .. n |-> 0] \o a

BMul(a, b) ==
    LET RECURSIVE MulFrom(_)
        MulFrom(i) ==
            IF i > Len(b) THEN <<>>
            ELSE BAdd(BMulSmall(a, b[i]), BUp(MulFrom(i + 1), 1))
    IN  MulFrom(1)

\* a * 2^n, and floor(a / 2^n): the digits from number n \div 15 on, divided
\* by a digit from the most significant one down
BShl(a, n) == BUp(BMulSmall(a, 2 ^ (n % 15)), n \div 15)
BShr(a, n) ==
    LET k == 2 ^ (n % 15)
        RECURSIVE DivSmallFrom(_, _)
        DivSmallFrom(i, r) ==
            IF i = n \div 15 THEN <<>>
            ELSE LET t == r * Base + a[i]
                 IN  DivSmallFrom(i - 1, t % k) \o <<t \div k>>
    IN  IF n \div 15 >= Len(a) THEN <<>> ELSE BTrim(DivSmallFrom(Len(a), 0))

\* the number of binary digits
BBitLen(a) ==
    LET RECURSIVE BitLenSmall(_)
        BitLenSmall(n) == IF n = 0 THEN 0 ELSE 1 + BitLenSmall(n \div 2)
    IN  IF a = <<>> THEN 0 ELSE 15 * (Len(a) - 1) + BitLenSmall(a[Len(a)])

\* the number of zeros at the low end of a # 0
BTrailing(a) ==
    LET RECURSIVE TrailingSmall(_)
        TrailingSmall(n) == IF n % 2 = 1 THEN 0 ELSE 1 + TrailingSmall(n \div 2)
        RECURSIVE TrailingFrom(_)
        TrailingFrom(i) ==
            IF a[i] = 0 THEN 15 + TrailingFrom(i + 1) ELSE TrailingSmall(a[i])
    IN  TrailingFrom(1)

\* floor(a / b) and a % b for b # 0: long division in base 2^15, by a divisor
\* scaled to have its top digit at least 2^14, so that the estimate of a
\* quotient digit from the top two digits of the remainder is at most 2 high
\* (num and den are a and b scaled by 2^s, r the remainder of the digits of
\* num above place i, quot the digits of the quotient found so far)
BDivMod(a, b) ==
    LET Estimate(den, r) ==
            (Digit(r, Len(den) + 1) * Base + Digit(r, Len(den))) \div den[Len(den)]
        Capped(est) == IF est >= Base THEN Base - 1 ELSE est
        RECURSIVE FitDigit(_, _, _)
        FitDigit(den, r, q) ==
            IF BCmp(BMulSmall(den, q), r) > 0 THEN FitDigit(den, r, q - 1) ELSE q
        RECURSIVE DivFrom(_, _, _, _, _, _)
        Take(num, den, s, i, r, quot, q) ==
            DivFrom(num, den, s, i - 1, BSub(r, BMulSmall(den, q)), <<q>> \o quot)
        Place(num, den, s, i, r, quot) ==
            Take(num, den, s, i, r, quot, FitDigit(den, r, Capped(Estimate(den, r))))
        DivFrom(num, den, s, i, r, quot) ==
            IF i = 0 THEN [quot |-> BTrim(quot), rem |-> BShr(r, s)]
            ELSE Place(num, den, s, i, BTrim(<<num[i]>> \o r), quot)
        Start(num, den, s) == DivFrom(num, den, s, Len(num), <<>>, <<>>)
        ScaledBy(s) == Start(BShl(a, s), BShl(b, s), s)
    IN  ScaledBy(15 * Len(b) - BBitLen(b))

\* floor(sqrt(a)) by Newton's iteration from a power of two above the root
BSqrt(a) ==
    LET RECURSIVE SqrtFrom(_)
        Newton(r, t) == IF BCmp(t, r) >= 0 THEN r ELSE SqrtFrom(t)
        SqrtFrom(r) == Newton(r, BShr(BAdd(r, BDivMod(a, r).quot), 1))
    IN  IF a = <<>> THEN a ELSE SqrtFrom(BShl(<<1>>, (BBitLen(a) + 1) \div 2))

\* A binary64 is a record: kind "fin" for the finite number m * 2^e, or -m *
\* 2^e when neg, with m odd (m = 0 and e = 0 for 0.0 and -0.0, which are not
\* told apart), kind "inf" for inf and -inf, and kind "nan".
Fin(m, e) ==
    IF m = <<>> THEN [kind |-> "fin", neg |-> FALSE, m |-> <<>>, e |-> 0]
    ELSE [kind |-> "fin", neg |-> FALSE,
          m |-> BShr(m, BTrailing(m)), e |-> e + BTrailing(m)]
FZero == Fin(<<>>, 0)
Inf == [kind |-> "inf", neg |-> FALSE, m |-> <<>>, e |-> 0]
NaN == [kind |-> "nan", neg |-> FALSE, m |-> <<>>, e |-> 0]
\* v, or -v if neg, for v >= 0
Signed(v, neg) ==
    IF v.kind = "nan" \/ v = FZero THEN v ELSE [v EXCEPT !.neg = neg]

\* (variant: the exponent range of a binary32, as with np.float32)
MaxExponent_Binary32 == 2 ^ 7 - 1

\* the largest and smallest binary exponents of a binary64 and the length of
\* its mantissa: the finite floats are below 2^(MaxExponent + 1), the
\* smallest positive one is 2^MinExponent
MaxExponent == 1023
MinExponent == -1074
MantissaBits == 53

\* Rounding the real number (m + t) * 2^e to a float, where 0 < t < 1 if
\* sticky and t = 0 if not (with sticky, m has more than MantissaBits binary
\* digits).  Dropped is the number of low digits of m that do not fit (the
\* floats are 2^MinExponent apart at the low end), RoundsUp says whether the
\* nearest float (ties to even) is the one above, and Rounded is the float
\* below or above: inf if that is 2^(MaxExponent + 1).
Dropped(m, e) ==
    IF BBitLen(m) - MantissaBits > MinExponent - e
    THEN BBitLen(m) - MantissaBits ELSE MinExponent - e
RoundsUp(m, e, sticky) ==
    LET \* binary digit number n of m (from 0)
        Bit(n) == (Digit(m, n \div 15 + 1) \div 2 ^ (n % 15)) % 2
        Up(drop) ==
            /\ drop > 0
            /\ Bit(drop - 1) = 1
            /\ \/ sticky
               \/ BShl(BShr(m, drop - 1), drop - 1) # m
               \/ Bit(drop) = 1
    IN  Up(Dropped(m, e))
Rounded(m, e, up) ==
    LET Pack(r, lo) == IF BBitLen(r) + lo - 1 > MaxExponent THEN Inf ELSE Fin(r, lo)
        Kept(kept, lo) == Pack(IF up THEN BAdd(kept, <<1>>) ELSE kept, lo)
        Drop(drop) ==
            IF drop <= 0 THEN Kept(m, e) ELSE Kept(BShr(m, drop), e + drop)
    IN  Drop(Dropped(m, e))
Round(m, e, sticky) == Rounded(m, e, RoundsUp(m, e, sticky))

\* a * b, a / b, a + b and sqrt(a) as IEEE 754 defines them, each the float
\* nearest to the exact result (a / 0.0 is numpy's: inf, or nan for 0.0 / 0.0)
FMul(a, b) ==
    IF a.kind = "nan" \/ b.kind = "nan" THEN NaN
    ELSE IF a.kind = "inf" \/ b.kind = "inf"
    THEN (IF a = FZero \/ b = FZero THEN NaN ELSE Signed(Inf, a.neg # b.neg))
    ELSE Signed(Round(BMul(a.m, b.m), a.e + b.e, FALSE), a.neg # b.neg)

FDiv(a, b) ==
    IF a.kind = "nan" \/ b.kind = "nan" THEN NaN
    ELSE IF a.kind = "inf"
    THEN (IF b.kind = "inf" THEN NaN ELSE Signed(Inf, a.neg # b.neg))
    ELSE IF b.kind = "inf" THEN FZero
    ELSE IF b = FZero THEN (IF a = FZero THEN NaN ELSE Signed(Inf, a.neg))
    ELSE IF a = FZero THEN FZero
    ELSE LET Quotient(s, d) ==
                 Signed(Round(d.quot, a.e - b.e - s, d.rem # <<>>), a.neg # b.neg)
             Shifted(s) == Quotient(s, BDivMod(BShl(a.m, s), b.m))
         IN  Shifted(IF BBitLen(a.m) >= BBitLen(b.m) + 64 THEN 0
                    ELSE BBitLen(b.m) + 64 - BBitLen(a.m))

FAdd(a, b) ==
    IF a.kind = "nan" \/ b.kind = "nan" THEN NaN
    ELSE IF a.kind = "inf"
    THEN (IF b.kind = "inf" /\ a.neg # b.neg THEN NaN ELSE a)
    ELSE IF b.kind = "inf" THEN b
    ELSE IF a = FZero THEN b
    ELSE IF b = FZero THEN a
    ELSE LET Sum(p, q, lo) ==
                 IF a.neg = b.neg THEN Signed(Round(BAdd(p, q), lo, FALSE), a.neg)
                 ELSE IF BCmp(p, q) >= 0
                 THEN Signed(Round(BSub(p, q), lo, FALSE), a.neg)
                 ELSE Signed(Round(BSub(q, p), lo, FALSE), b.neg)
             Aligned(lo) == Sum(BShl(a.m, a.e - lo), BShl(b.m, b.e - lo), lo)
         IN  Aligned(IF a.e < b.e THEN a.e ELSE b.e)

sqrt(a) ==
    IF a.kind = "nan" \/ a = FZero THEN a
    ELSE IF a.neg THEN NaN
    ELSE IF a.kind = "inf" THEN a
    ELSE LET Root(s, n, r) == Round(r, (a.e - s) \div 2, BMul(r, r) # n)
             Shifted(s) == Root(s, BShl(a.m, s), BSqrt(BShl(a.m, s)))
             Even(s0) == Shifted(IF (a.e - s0) % 2 = 0 THEN s0 ELSE s0 + 1)
         IN  Even(IF BBitLen(a.m) >= 108 THEN 0 ELSE 108 - BBitLen(a.m))

\* a < b and a <= b (False when either is nan); MagLt(p, q) is |p| < |q|
FLt(a, b) ==
    LET MagLt(p, q) ==
            IF p.kind = "inf" THEN FALSE
            ELSE IF q.kind = "inf" THEN TRUE
            ELSE IF q.m = <<>> THEN FALSE
            ELSE IF p.m = <<>> THEN TRUE
            ELSE IF BBitLen(p.m) + p.e # BBitLen(q.m) + q.e
            THEN BBitLen(p.m) + p.e < BBitLen(q.m) + q.e
            ELSE IF p.e < q.e THEN BCmp(p.m, BShl(q.m, q.e - p.e)) < 0
            ELSE BCmp(BShl(p.m, p.e - q.e), q.m) < 0
    IN  IF a.kind = "nan" \/ b.kind = "nan" THEN FALSE
        ELSE IF a.neg # b.neg THEN a.neg
        ELSE IF a.neg THEN MagLt(b, a)
        ELSE MagLt(a, b)
FLe(a, b) == a.kind # "nan" /\ b.kind # "nan" /\ ~FLt(b, a)

\* the float n / d * 2^k for a power of two d
F(n, d, k) ==
    Signed(Fin(BigOf(IF n < 0 THEN -n ELSE n), k - BTrailing(BigOf(d))), n < 0)
\* v <= 0 (False for nan)
NotPositive(v) == FLe(v, FZero)

\* ------------------------------------------------------------ arguments
\* Python's None where a number is expected: a pair that is no rational (d = 0)
None == <<0, 0>>

\* load positions: not supplied, or a multiple of 1/2 from below 0 to above
\* the longest beam (so that L/2, 0, L and positions off the beam all occur)
Positions == {None} \cup {Rat(k, 2) : k \in -1 .. 2 * MaxLen + 1}
LoadTypes == {"point", "distributed", "moment", "other"}
BoundaryConditions == {"simply_supported", "cantilever", "fixed_fixed", "other"}
NumPoints == 0 .. MaxN

VARIABLES
    length, E, second_moment, load_type, load_magnitude, load_position,
    boundary_conditions, num_points,      \* the arguments of the call
    pc,                                   \* the statement about to run
    x, deflection, moment, shear,         \* the local arrays
    max_deflection, max_moment,           \* the scalars of the result
    error,                                \* the message of the exception raised
    \* a call of ColumnTheory.euler_buckling (it shares length, E,
    \* second_moment, pc and error with the above)
    end_conditions, safety_factor,        \* its other two arguments
    K, effective_length, critical_load, design_load, estimated_area,
    radius_of_gyration, slenderness_ratio, critical_stress,
    recommendation,                       \* its locals
    method,                               \* the method that is called
    positional,                           \* the *args a stub method is called with
    previous                              \* the outcome of the call made before

args == <<length, E, second_moment, load_type, load_magnitude, load_position,
          boundary_conditions, num_points>>
arrays == <<x, deflection, moment, shear>>
maxima == <<max_deflection, max_moment>>
column == <<end_conditions, safety_factor, K, effective_length, critical_load,
            design_load, estimated_area, radius_of_gyration, slenderness_ratio,
            critical_stress, recommendation>>
call == <<method, positional, previous>>
vars == <<args, pc, arrays, maxima, error, column, call>>

\* a local that is not bound yet
Unbound == <<None>>
NoError == ""

\* no call was made before this one
NoCall == [method |-> ""]

\* a call of euler_bernoulli has none of euler_buckling's arguments and locals
NoColumn ==
    /\ end_conditions = "" /\ safety_factor = None
    /\ K = None /\ effective_length = None /\ critical_load = None
    /\ design_load = None /\ estimated_area = None
    /\ radius_of_gyration = None /\ slenderness_ratio = None
    /\ critical_stress = None /\ recommendation = ""

\* The arguments are drawn from the sets above, or they are those of a call
\* in which rounding decides a branch: of the 51 stations of a beam of length
\* 7, the one at midspan is 25 * (7 / 50) = 3.5000000000000004 in binary64,
\* which is right of a point load or moment at 3.5.
Init ==
    /\ \/ /\ length \in {R(k) : k \in -1 .. MaxLen}
          /\ load_type \in LoadTypes
          /\ load_position \in Positions
          /\ num_points \in NumPoints
       \/ /\ length = R(7)
          /\ load_type \in {"point", "moment"}
          /\ load_position \in {None, Rat(7, 2)}
          /\ num_points = 51
    /\ E \in {R(k) : k \in 0 .. MaxStiff}
    /\ second_moment \in {R(k) : k \in 0 .. MaxStiff}
    /\ load_magnitude \in {R(k) : k \in -MaxMag .. MaxMag}
    /\ boundary_conditions \in BoundaryConditions
    /\ pc = "check_geometry"
    /\ x = Unbound /\ deflection = Unbound /\ moment = Unbound /\ shear = Unbound
    /\ max_deflection = None /\ max_moment = None
    /\ error = NoError
    /\ NoColumn
    /\ method = "euler_bernoulli" /\ positional = <<>> /\ previous = NoCall

\* ----------------------------------------------------------- validation
Raise(msg) ==
    /\ pc' = "raised"
    /\ error' = msg
    /\ UNCHANGED <<call, args, arrays, maxima, column>>

Goto(next) ==
    /\ pc' = next
    /\ UNCHANGED <<call, args, arrays, maxima, error, column>>

\* (variant: a zero elastic modulus slips through, E < 0 for E <= 0)
CheckGeometry_ZeroModulusAccepted ==
    /\ pc = "check_geometry"
    /\ IF RLe(length, Zero) \/ RLt(E, Zero) \/ RLe(second_moment, Zero)
       THEN Raise("Length, E, and second_moment must be positive")
       ELSE Goto("check_magnitude")

CheckGeometry ==
    /\ pc = "check_geometry"
    /\ IF RLe(length, Zero) \/ RLe(E, Zero) \/ RLe(second_moment, Zero)
       THEN Raise("Length, E, and second_moment must be positive")
       ELSE Goto("check_magnitude")

CheckMagnitude ==
    /\ pc = "check_magnitude"
    /\ IF load_magnitude = Zero
       THEN Raise("Load magnitude cannot be zero")
       ELSE Goto("check_point_position")

\* (variant: a position is required whatever the load type is)
CheckPointPosition_AnyLoadType ==
    /\ pc = "check_point_position"
    /\ IF load_position = None
       THEN Raise("Point load requires load_position")
       ELSE Goto("check_moment_position")

CheckPointPosition ==
    /\ pc = "check_point_position"
    /\ IF load_type = "point" /\ load_position = None
       THEN Raise("Point load requires load_position")
       ELSE Goto("check_moment_position")

\* (variant: the check is skipped for the combination that has no sub-solver)
CheckMomentPosition_NotForFixedFixed ==
    /\ pc = "check_moment_position"
    /\ IF load_type = "moment" /\ load_position = None
            /\ boundary_conditions # "fixed_fixed"
       THEN Raise("Applied moment requires load_position")
       ELSE Goto("create_stations")

CheckMomentPosition ==
    /\ pc = "check_moment_position"
    /\ IF load_type = "moment" /\ load_position = None
       THEN Raise("Applied moment requires load_position")
       ELSE Goto("create_stations")

\* ------------------------------------------------------------- stations
\* The arguments of a call are floats.  The rationals the model draws are
\* floats themselves (integers and halves); Float is the binary64 of a
\* rational, the nearest one where it is none itself.
Float(p) == FDiv(F(p[1], 1, 0), F(p[2], 1, 0))

\* A station is <<n, d, f>>: the binary64 f that np.linspace computes, by
\* which the comparisons of the code are decided, and the real number n/d
\* that f approximates, from which the closed forms are computed (the
\* operators on rationals read n and d only).
Station(p, f) == <<p[1], p[2], f>>

\* xi <= a for a station xi and a load position a
StationLe(xi, a) == FLe(xi[3], Float(a))

\* (variant: the endpoint is left out, as with endpoint=False)
linspace_NoEndpoint(start, stop, num) ==
    LET Samples(delta, step) ==
            [i \in 1 .. num |->
                Station(RAdd(start, RMul(R(i - 1), RDiv(RSub(stop, start), R(num)))),
                        FAdd(IF step = FZero
                             THEN FMul(FDiv(F(i - 1, 1, 0), F(num, 1, 0)), delta)
                             ELSE FMul(F(i - 1, 1, 0), step),
                             Float(start)))]
        Steps(delta) == Samples(delta, FDiv(delta, F(num, 1, 0)))
    IN  Steps(FAdd(Float(stop), Float(RNeg(start))))

\* np.linspace(start, stop, num) for num >= 0: num evenly spaced samples,
\* the first at start and (for num > 1) the last at stop.  numpy computes
\* delta = stop - start, step = delta / (num - 1) and the samples
\* arange(num) * step + start (arange(num) / (num - 1) * delta + start where
\* step is 0.0), each operation rounded, and then sets the last sample to
\* stop; a single sample is 0.0 * delta + start.
linspace(start, stop, num) ==
    LET Samples(delta, step) ==
            [i \in 1 .. num |->
                IF num = 1
                THEN Station(start, FAdd(FMul(FZero, delta), Float(start)))
                ELSE IF i = num THEN Station(stop, Float(stop))
                ELSE Station(RAdd(start, RMul(R(i - 1),
                                              RDiv(RSub(stop, start), R(num - 1)))),
                             FAdd(IF step = FZero
                                  THEN FMul(FDiv(F(i - 1, 1, 0), F(num - 1, 1, 0)),
                                            delta)
                                  ELSE FMul(F(i - 1, 1, 0), step),
                                  Float(start)))]
        Steps(delta) == Samples(delta, FDiv(delta, F(num - 1, 1, 0)))
    IN  Steps(FAdd(Float(stop), Float(RNeg(start))))

\* (variant: the arrays start at 1, as with np.ones_like)
zeros_like_Ones(a) == [i \in 1 .. Len(a) |-> R(1)]

zeros_like(a) == [i \in 1 .. Len(a) |-> Zero]

CreateStations ==
    /\ pc = "create_stations"
    /\ x' = linspace(Zero, length, num_points)
    /\ deflection' = zeros_like(x')
    /\ moment' = zeros_like(x')
    /\ shear' = zeros_like(x')
    /\ pc' = "dispatch"
    /\ UNCHANGED <<call, args, maxima, error, column>>

\* ---------------------------------------------------------- sub-solvers
\* Each sub-solver returns the three arrays it computes for the stations x_.
\* (Parameters carry a trailing underscore where the code's name is also the
\* name of a variable of the model.)
RECURSIVE RProd(_)
RProd(s) == IF Len(s) = 0 THEN R(1) ELSE RMul(Head(s), RProd(Tail(s)))

Fields(d, m, v) == [deflection |-> d, moment |-> m, shear |-> v]

\* -- simply supported, point load P at a
\* the else branch (xi > a), lines 157-159
ss_point_deflection_right(xi, L, E_, moment_of_inertia, P, a) ==
    RDiv(RProd(<<P, a, RSub(L, xi),
                 RSub(RSub(RProd(<<R(2), L, xi>>), RSq(xi)), RSq(a))>>),
         RProd(<<R(6), E_, moment_of_inertia, L>>))

\* (variant: the right branch carries the left branch's factor xi for L - xi)
ss_point_deflection_RightFactor(xi, L, E_, moment_of_inertia, P, a) ==
    LET b == RSub(L, a)
    IN  IF StationLe(xi, a)
        THEN RDiv(RProd(<<P, b, xi, RSub(RSub(RSq(L), RSq(b)), RSq(xi))>>),
                  RProd(<<R(6), E_, moment_of_inertia, L>>))
        ELSE RDiv(RProd(<<P, a, xi,
                          RSub(RSub(RProd(<<R(2), L, xi>>), RSq(xi)), RSq(a))>>),
                  RProd(<<R(6), E_, moment_of_inertia, L>>))

ss_point_deflection(xi, L, E_, moment_of_inertia, P, a) ==
    LET b == RSub(L, a)
    IN  IF StationLe(xi, a)
        THEN RDiv(RProd(<<P, b, xi, RSub(RSub(RSq(L), RSq(b)), RSq(xi))>>),
                  RProd(<<R(6), E_, moment_of_inertia, L>>))
        ELSE ss_point_deflection_right(xi, L, E_, moment_of_inertia, P, a)

\* (variant: right of the load the term -P (xi - a) is missing)
ss_point_moment_NoRelief(xi, L, P, a) ==
    LET b == RSub(L, a)
        R1 == RDiv(RMul(P, b), L)
    IN  RMul(R1, xi)

ss_point_moment(xi, L, P, a) ==
    LET b == RSub(L, a)
        R1 == RDiv(RMul(P, b), L)
    IN  IF StationLe(xi, a)
        THEN RMul(R1, xi)
        ELSE RSub(RMul(R1, xi), RMul(P, RSub(xi, a)))

\* (variant: a two-way split, the station at the load takes the left value)
ss_point_shear_TwoWay(xi, L, P, a) ==
    LET b == RSub(L, a)
        R1 == RDiv(RMul(P, b), L)
        R2 == RDiv(RMul(P, a), L)
    IN  IF StationLe(xi, a) THEN R1 ELSE RNeg(R2)

ss_point_shear(xi, L, P, a) ==
    LET b == RSub(L, a)
        R1 == RDiv(RMul(P, b), L)
        R2 == RDiv(RMul(P, a), L)
    IN  IF FLt(xi[3], Float(a)) THEN R1
        ELSE IF FLt(Float(a), xi[3]) THEN RNeg(R2)
        ELSE Zero

simply_supported_point_load(x_, L, E_, moment_of_inertia, P, a) ==
    Fields([i \in 1 .. Len(x_) |-> ss_point_deflection(x_[i], L, E_, moment_of_inertia, P, a)],
           [i \in 1 .. Len(x_) |-> ss_point_moment(x_[i], L, P, a)],
           [i \in 1 .. Len(x_) |-> ss_point_shear(x_[i], L, P, a)])

\* -- simply supported, uniformly distributed load w
\* (variant: L x^2 for 2 L x^2)
ss_distributed_deflection_Coefficient(xi, L, E_, second_moment_, w) ==
    RDiv(RProd(<<w, xi, RAdd(RSub(RCube(L), RProd(<<L, RSq(xi)>>)), RCube(xi))>>),
         RProd(<<R(24), E_, second_moment_>>))

ss_distributed_deflection(xi, L, E_, second_moment_, w) ==
    RDiv(RProd(<<w, xi, RAdd(RSub(RCube(L), RProd(<<R(2), L, RSq(xi)>>)), RCube(xi))>>),
         RProd(<<R(24), E_, second_moment_>>))

ss_distributed_moment(xi, L, w) == RDiv(RProd(<<w, xi, RSub(L, xi)>>), R(2))

ss_distributed_shear(xi, L, w) == RSub(RDiv(RMul(w, L), R(2)), RMul(w, xi))

simply_supported_distributed_load(x_, L, E_, second_moment_, w) ==
    Fields([i \in 1 .. Len(x_) |-> ss_distributed_deflection(x_[i], L, E_, second_moment_, w)],
           [i \in 1 .. Len(x_) |-> ss_distributed_moment(x_[i], L, w)],
           [i \in 1 .. Len(x_) |-> ss_distributed_shear(x_[i], L, w)])

\* -- simply supported, applied moment M at a
\* the else branch (xi > a), lines 217-219
ss_moment_deflection_right(xi, L, E_, moment_of_inertia, M, a) ==
    LET M2 == RDiv(RMul(M, a), L)
    IN  RDiv(RProd(<<M2, RSub(L, xi), RSub(RSq(L), RSq(RSub(L, xi)))>>),
             RProd(<<R(6), E_, moment_of_inertia, L>>))

ss_moment_deflection(xi, L, E_, moment_of_inertia, M, a) ==
    LET M1 == RDiv(RMul(M, RSub(L, a)), L)
    IN  IF StationLe(xi, a)
        THEN RDiv(RProd(<<M1, xi, RSub(RSq(L), RSq(xi))>>),
                  RProd(<<R(6), E_, moment_of_inertia, L>>))
        ELSE ss_moment_deflection_right(xi, L, E_, moment_of_inertia, M, a)

ss_moment_moment(xi, L, M, a) ==
    LET M1 == RDiv(RMul(M, RSub(L, a)), L)
        M2 == RDiv(RMul(M, a), L)
    IN  IF StationLe(xi, a)
        THEN RDiv(RMul(M1, xi), L)
        ELSE RDiv(RMul(M2, RSub(L, xi)), L)

\* (variant: the shear is the support reaction -M / L instead of 0)
simply_supported_moment_ReactionShear(x_, L, E_, moment_of_inertia, M, a) ==
    Fields([i \in 1 .. Len(x_) |-> ss_moment_deflection(x_[i], L, E_, moment_of_inertia, M, a)],
           [i \in 1 .. Len(x_) |-> ss_moment_moment(x_[i], L, M, a)],
           [i \in 1 .. Len(x_) |-> RNeg(RDiv(M, L))])

simply_supported_moment(x_, L, E_, moment_of_inertia, M, a) ==
    Fields([i \in 1 .. Len(x_) |-> ss_moment_deflection(x_[i], L, E_, moment_of_inertia, M, a)],
           [i \in 1 .. Len(x_) |-> ss_moment_moment(x_[i], L, M, a)],
           [i \in 1 .. Len(x_) |-> Zero])

\* -- cantilever (fixed at x = 0), point load P at a
\* the else branch (xi > a), line 247
cantilever_point_deflection_right(xi, E_, second_moment_, P, a) ==
    RDiv(RProd(<<P, RSq(a), RSub(RMul(R(3), xi), a)>>),
         RProd(<<R(6), E_, second_moment_>>))

\* (variant: 3a + xi for 3a - xi left of the load)
cantilever_point_deflection_Sign(xi, E_, second_moment_, P, a) ==
    IF StationLe(xi, a)
    THEN RDiv(RProd(<<P, RSq(xi), RAdd(RMul(R(3), a), xi)>>),
              RProd(<<R(6), E_, second_moment_>>))
    ELSE RDiv(RProd(<<P, RSq(a), RSub(RMul(R(3), xi), a)>>),
              RProd(<<R(6), E_, second_moment_>>))

cantilever_point_deflection(xi, E_, second_moment_, P, a) ==
    IF StationLe(xi, a)
    THEN RDiv(RProd(<<P, RSq(xi), RSub(RMul(R(3), a), xi)>>),
              RProd(<<R(6), E_, second_moment_>>))
    ELSE cantilever_point_deflection_right(xi, E_, second_moment_, P, a)

cantilever_point_moment(xi, P, a) ==
    IF StationLe(xi, a) THEN RMul(RNeg(P), RSub(a, xi)) ELSE Zero

cantilever_point_shear(xi, P, a) == IF StationLe(xi, a) THEN RNeg(P) ELSE Zero

cantilever_point_load(x_, L, E_, second_moment_, P, a) ==
    Fields([i \in 1 .. Len(x_) |-> cantilever_point_deflection(x_[i], E_, second_moment_, P, a)],
           [i \in 1 .. Len(x_) |-> cantilever_point_moment(x_[i], P, a)],
           [i \in 1 .. Len(x_) |-> cantilever_point_shear(x_[i], P, a)])

\* -- cantilever, uniformly distributed load w
cantilever_distributed_deflection(xi, L, E_, second_moment_, w) ==
    RDiv(RProd(<<w, RSq(xi),
                 RAdd(RSub(RMul(R(6), RSq(L)), RProd(<<R(4), L, xi>>)), RSq(xi))>>),
         RProd(<<R(24), E_, second_moment_>>))

\* (variant: the division by 2 is missing)
cantilever_distributed_moment_NoHalf(xi, L, w) == RMul(RNeg(w), RSq(RSub(L, xi)))

cantilever_distributed_moment(xi, L, w) ==
    RDiv(RMul(RNeg(w), RSq(RSub(L, xi))), R(2))

cantilever_distributed_shear(xi, L, w) == RMul(RNeg(w), RSub(L, xi))

cantilever_distributed_load(x_, L, E_, second_moment_, w) ==
    Fields([i \in 1 .. Len(x_) |-> cantilever_distributed_deflection(x_[i], L, E_, second_moment_, w)],
           [i \in 1 .. Len(x_) |-> cantilever_distributed_moment(x_[i], L, w)],
           [i \in 1 .. Len(x_) |-> cantilever_distributed_shear(x_[i], L, w)])

\* -- cantilever, applied moment M at a
\* the else branch (xi > a), line 284
cantilever_moment_deflection_right(xi, E_, second_moment_, M, a) ==
    RDiv(RProd(<<M, xi, RSub(RMul(R(2), a), xi)>>),
         RProd(<<R(2), E_, second_moment_>>))

cantilever_moment_deflection(xi, E_, second_moment_, M, a) ==
    IF StationLe(xi, a)
    THEN RDiv(RMul(M, RSq(xi)), RProd(<<R(2), E_, second_moment_>>))
    ELSE cantilever_moment_deflection_right(xi, E_, second_moment_, M, a)

cantilever_moment_moment(xi, M, a) == IF StationLe(xi, a) THEN RNeg(M) ELSE Zero

cantilever_moment(x_, L, E_, second_moment_, M, a) ==
    Fields([i \in 1 .. Len(x_) |-> cantilever_moment_deflection(x_[i], E_, second_moment_, M, a)],
           [i \in 1 .. Len(x_) |-> cantilever_moment_moment(x_[i], M, a)],
           [i \in 1 .. Len(x_) |-> Zero])

\* -- fixed-fixed, point load P at a
\* (variant: a + b for 3a + b in the left reaction)
ff_point_R1_NoThree(L, P, a) ==
    LET b == RSub(L, a)
    IN  RDiv(RProd(<<P, RSq(b), RAdd(a, b)>>), RCube(L))

ff_point_R1(L, P, a) ==
    LET b == RSub(L, a)
    IN  RDiv(RProd(<<P, RSq(b), RAdd(RMul(R(3), a), b)>>), RCube(L))

\* (variant: the fixed-end moment divided by L instead of L^2)
ff_point_M1_OverL(L, P, a) ==
    LET b == RSub(L, a)
    IN  RDiv(RProd(<<P, a, RSq(b)>>), L)

ff_point_M1(L, P, a) ==
    LET b == RSub(L, a)
    IN  RDiv(RProd(<<P, a, RSq(b)>>), RSq(L))

\* the else branch (xi > a), lines 317-319
ff_point_deflection_right(xi, L, E_, second_moment_, P, a) ==
    LET R1 == ff_point_R1(L, P, a)
        M1 == ff_point_M1(L, P, a)
    IN  RDiv(RSub(RSub(RDiv(RMul(R1, RCube(xi)), R(6)),
                       RDiv(RMul(M1, RSq(xi)), R(2))),
                  RDiv(RMul(P, RCube(RSub(xi, a))), R(6))),
             RMul(E_, second_moment_))

\* (variant: right of the load the term -P (xi - a)^3 / 6 is missing)
ff_point_deflection_NoLoadTerm(xi, L, E_, second_moment_, P, a) ==
    LET R1 == ff_point_R1(L, P, a)
        M1 == ff_point_M1(L, P, a)
    IN  RDiv(RSub(RDiv(RMul(R1, RCube(xi)), R(6)),
                  RDiv(RMul(M1, RSq(xi)), R(2))),
             RMul(E_, second_moment_))

ff_point_deflection(xi, L, E_, second_moment_, P, a) ==
    LET R1 == ff_point_R1(L, P, a)
        M1 == ff_point_M1(L, P, a)
    IN  IF StationLe(xi, a)
        THEN RDiv(RSub(RDiv(RMul(R1, RCube(xi)), R(6)),
                       RDiv(RMul(M1, RSq(xi)), R(2))),
                  RMul(E_, second_moment_))
        ELSE ff_point_deflection_right(xi, L, E_, second_moment_, P, a)

ff_point_moment(xi, L, P, a) ==
    LET R1 == ff_point_R1(L, P, a)
        M1 == ff_point_M1(L, P, a)
    IN  IF StationLe(xi, a)
        THEN RSub(RMul(R1, xi), M1)
        ELSE RSub(RSub(RMul(R1, xi), M1), RMul(P, RSub(xi, a)))

ff_point_shear(xi, L, P, a) ==
    LET R1 == ff_point_R1(L, P, a)
    IN  IF StationLe(xi, a) THEN R1 ELSE RSub(R1, P)

fixed_fixed_point_load(x_, L, E_, second_moment_, P, a) ==
    Fields([i \in 1 .. Len(x_) |-> ff_point_deflection(x_[i], L, E_, second_moment_, P, a)],
           [i \in 1 .. Len(x_) |-> ff_point_moment(x_[i], L, P, a)],
           [i \in 1 .. Len(x_) |-> ff_point_shear(x_[i], L, P, a)])

\* -- fixed-fixed, uniformly distributed load w
ff_distributed_deflection(xi, L, E_, second_moment_, w) ==
    RDiv(RProd(<<w, RSq(xi), RSq(RSub(L, xi))>>),
         RProd(<<R(24), E_, second_moment_>>))

\* (variant: the end moment L^2 / 12 without the load)
ff_distributed_moment_UnitEndMoment(xi, L, w) ==
    RSub(RDiv(RSq(L), R(12)), RDiv(RProd(<<w, xi, RSub(L, xi)>>), R(2)))

ff_distributed_moment(xi, L, w) ==
    RSub(RDiv(RMul(w, RSq(L)), R(12)), RDiv(RProd(<<w, xi, RSub(L, xi)>>), R(2)))

ff_distributed_shear(xi, L, w) == RSub(RDiv(RMul(w, L), R(2)), RMul(w, xi))

fixed_fixed_distributed_load(x_, L, E_, second_moment_, w) ==
    Fields([i \in 1 .. Len(x_) |-> ff_distributed_deflection(x_[i], L, E_, second_moment_, w)],
           [i \in 1 .. Len(x_) |-> ff_distributed_moment(x_[i], L, w)],
           [i \in 1 .. Len(x_) |-> ff_distributed_shear(x_[i], L, w)])

\* ------------------------------------------------------------- dispatch
\* The if/elif chain of lines 79-120: the arrays are rebound to a sub-solver's
\* result, or no branch is taken and they keep their zeros.
Assign(f) ==
    /\ deflection' = f.deflection
    /\ moment' = f.moment
    /\ shear' = f.shear
    /\ pc' = "maxima"
    /\ UNCHANGED <<call, args, x, maxima, error, column>>

SimplySupportedPoint ==
    /\ pc = "dispatch"
    /\ boundary_conditions = "simply_supported" /\ load_type = "point"
    /\ Assign(simply_supported_point_load(
                  x, length, E, second_moment, load_magnitude, load_position))

\* (variant: simply_supported is the else of the chain, taken for every
\* boundary condition that is neither cantilever nor fixed_fixed)
SimplySupportedDistributed_AsDefault ==
    /\ pc = "dispatch"
    /\ boundary_conditions \notin {"cantilever", "fixed_fixed"}
    /\ load_type = "distributed"
    /\ Assign(simply_supported_distributed_load(
                  x, length, E, second_moment, load_magnitude))

SimplySupportedDistributed ==
    /\ pc = "dispatch"
    /\ boundary_conditions = "simply_supported" /\ load_type = "distributed"
    /\ Assign(simply_supported_distributed_load(
                  x, length, E, second_moment, load_magnitude))

SimplySupportedMoment ==
    /\ pc = "dispatch"
    /\ boundary_conditions = "simply_supported" /\ load_type = "moment"
    /\ Assign(simply_supported_moment(
                  x, length, E, second_moment, load_magnitude, load_position))

CantileverPoint ==
    /\ pc = "dispatch"
    /\ boundary_conditions = "cantilever" /\ load_type = "point"
    /\ Assign(cantilever_point_load(
                  x, length, E, second_moment, load_magnitude, load_position))

CantileverDistributed ==
    /\ pc = "dispatch"
    /\ boundary_conditions = "cantilever" /\ load_type = "distributed"
    /\ Assign(cantilever_distributed_load(
                  x, length, E, second_moment, load_magnitude))

CantileverMoment ==
    /\ pc = "dispatch"
    /\ boundary_conditions = "cantilever" /\ load_type = "moment"
    /\ Assign(cantilever_moment(
                  x, length, E, second_moment, load_magnitude, load_position))

FixedFixedPoint ==
    /\ pc = "dispatch"
    /\ boundary_conditions = "fixed_fixed" /\ load_type = "point"
    /\ Assign(fixed_fixed_point_load(
                  x, length, E, second_moment, load_magnitude, load_position))

FixedFixedDistributed ==
    /\ pc = "dispatch"
    /\ boundary_conditions = "fixed_fixed" /\ load_type = "distributed"
    /\ Assign(fixed_fixed_distributed_load(
                  x, length, E, second_moment, load_magnitude))

Implemented(bc, lt) ==
    \/ bc \in {"simply_supported", "cantilever"} /\ lt \in {"point", "distributed", "moment"}
    \/ bc = "fixed_fixed" /\ lt \in {"point", "distributed"}

NoBranch ==
    /\ pc = "dispatch"
    /\ ~Implemented(boundary_conditions, load_type)
    /\ Goto("maxima")

\* --------------------------------------------------------------- maxima
\* (variant: the magnitudes are not taken)
abs_Identity(a) == a

\* np.abs, elementwise
abs(a) == [i \in 1 .. Len(a) |-> RAbs(a[i])]

\* np.max of a non-empty array: the reduction of a[lo .. hi] by pairwise maxima
RECURSIVE MaxIn(_, _, _)
MaxIn(a, lo, hi) ==
    IF lo = hi THEN a[lo]
    ELSE LET mid == (lo + hi) \div 2
             left == MaxIn(a, lo, mid)
             right == MaxIn(a, mid + 1, hi)
         IN  IF RLt(left, right) THEN right ELSE left
max(a) == MaxIn(a, 1, Len(a))

\* Lines 122-133.  np.max of an empty array raises ValueError.
Maxima ==
    /\ pc = "maxima"
    /\ IF Len(deflection) = 0
       THEN Raise("zero-size array to reduction operation maximum which has no identity")
       ELSE /\ max_deflection' = max(abs(deflection))
            /\ max_moment' = max(abs(moment))
            /\ pc' = "returned"
            /\ UNCHANGED <<call, args, arrays, error, column>>

Next ==
    \/ CheckGeometry
    \/ CheckMagnitude
    \/ CheckPointPosition
    \/ CheckMomentPosition
    \/ CreateStations
    \/ SimplySupportedPoint
    \/ SimplySupportedDistributed
    \/ SimplySupportedMoment
    \/ CantileverPoint
    \/ CantileverDistributed
    \/ CantileverMoment
    \/ FixedFixedPoint
    \/ FixedFixedDistributed
    \/ NoBranch
    \/ Maxima

Spec == Init /\ [][Next]_vars

\* ---------------------------------------------- calls at the default N
\* The same calls with num_points left at its default, for a centre load (or
\* no position).  The lengths are 99 and 99/2, for which the 100 stations are
\* the integers 0 .. 99 and their halves, and E and second_moment are
\* multiples of 99: the exact values, and 1.01 times their closed forms, then
\* stay within 32-bit integers.
DefaultNumPoints == 100

InitDefault ==
    /\ length \in {R(0), Rat(99, 2), R(99)}
    /\ E \in {R(0), R(99), R(198)}
    /\ second_moment \in {R(0), R(99), R(198)}
    /\ load_type \in LoadTypes
    /\ load_magnitude \in {R(-1), R(0), R(1), R(2)}
    /\ load_position \in {None, RDiv(length, R(2))}
    /\ boundary_conditions \in BoundaryConditions
    /\ num_points = DefaultNumPoints
    /\ pc = "check_geometry"
    /\ x = Unbound /\ deflection = Unbound /\ moment = Unbound /\ shear = Unbound
    /\ max_deflection = None /\ max_moment = None
    /\ error = NoError
    /\ NoColumn
    /\ method = "euler_bernoulli" /\ positional = <<>> /\ previous = NoCall

SpecDefault == InitDefault /\ [][Next]_vars

\* ------------------------------ a centre load at every station count
\* The same calls with every station count from 2 to MaxStations, for a
\* centre load (or no position).  The length is N - 1, for which the N
\* stations are the integers 0 .. N - 1 (midspan is one of them when N is
\* odd and halfway between two of them when N is even), and E and
\* second_moment are multiples of N - 1.  The call with 51 stations on a beam
\* of length 7, whose midspan station is rounded to the right of the load, is
\* one of them.
InitCentre ==
    \/ num_points = 51 /\ Init
    \/ /\ num_points \in 2 .. MaxStations
       /\ length \in {R(0), R(num_points - 1)}
       /\ E \in {R(0), R(num_points - 1), R(2 * (num_points - 1))}
       /\ second_moment = R(num_points - 1)
       /\ load_type \in LoadTypes
       /\ load_magnitude \in {R(-1), R(0), R(2)}
       /\ load_position \in {None, RDiv(length, R(2))}
       /\ boundary_conditions \in BoundaryConditions
       /\ pc = "check_geometry"
       /\ x = Unbound /\ deflection = Unbound /\ moment = Unbound /\ shear = Unbound
       /\ max_deflection = None /\ max_moment = None
       /\ error = NoError
       /\ NoColumn
       /\ method = "euler_bernoulli" /\ positional = <<>> /\ previous = NoCall

SpecCentre == InitCentre /\ [][Next]_vars
\* ======================================================================
\* Properties of euler_bernoulli
\* ======================================================================
GeometryMsg == "Length, E, and second_moment must be positive"
MagnitudeMsg == "Load magnitude cannot be zero"
PointPositionMsg == "Point load requires load_position"
MomentPositionMsg == "Applied moment requires load_position"

GeometryValid == RLt(Zero, length) /\ RLt(Zero, E) /\ RLt(Zero, second_moment)
PastGeometryCheck == pc # "check_geometry"
PastMagnitudeCheck == pc \notin {"check_geometry", "check_magnitude"}
PastValidation ==
    pc \notin {"check_geometry", "check_magnitude", "check_point_position",
               "check_moment_position"}
\* the sub-solver (if any) has run: the arrays are the ones returned
Solved == pc \in {"maxima", "returned"}
OnBeam(a) == RLe(Zero, a) /\ RLe(a, length)

\* C1: a non-positive length, E or second_moment always ends the call with the
\* combined geometry error, whatever the other arguments are (so also when the
\* magnitude is zero or the position is missing); with valid geometry a zero
\* magnitude always ends it with the magnitude error, before any position check.
C1_GeometryThenMagnitude ==
    /\ (PastGeometryCheck /\ ~GeometryValid)
          => (pc = "raised" /\ error = GeometryMsg)
    /\ (PastMagnitudeCheck /\ GeometryValid /\ load_magnitude = Zero)
          => (pc = "raised" /\ error = MagnitudeMsg)

C1_Witness ==
    /\ pc = "raised" /\ error = GeometryMsg
    /\ second_moment = Zero /\ RLt(Zero, length) /\ RLt(Zero, E)
    /\ load_magnitude = Zero
    /\ load_type = "moment" /\ load_position = None
    /\ boundary_conditions = "fixed_fixed"

\* C2: with valid geometry and magnitude, a point or moment load without a
\* position raises the position error under every boundary condition, and
\* with any position supplied (on the beam or off it) and at least two
\* stations no statement of the call raises, and the call returns a result.
C2_PositionPresenceOnly ==
    /\ (PastValidation /\ GeometryValid /\ load_magnitude # Zero
            /\ load_type \in {"point", "moment"} /\ load_position = None)
          => /\ pc = "raised"
             /\ error = (IF load_type = "point" THEN PointPositionMsg
                                                ELSE MomentPositionMsg)
    /\ (GeometryValid /\ load_magnitude # Zero /\ load_position # None
            /\ num_points >= 2)
          => /\ pc # "raised"
             /\ error = NoError
             /\ (pc = "returned" =>
                    /\ Len(x) = num_points
                    /\ max_deflection # None /\ max_moment # None)

C2_Witness ==
    /\ pc = "returned"
    /\ load_type = "point" /\ boundary_conditions = "simply_supported"
    /\ load_position # None /\ RLt(length, load_position)
    /\ num_points >= 2

\* C3: once the stations exist (N >= 2), x, deflection, moment and shear each
\* have N entries, before and after the dispatch and for every combination of
\* boundary condition and load type; x starts at 0, ends at length, and its
\* consecutive entries are non-decreasing and (as the real numbers the floats
\* approximate) equally spaced.
C3_ShapesAndStations ==
    (pc \in {"dispatch", "maxima", "returned"} /\ num_points >= 2)
      => /\ Len(x) = num_points
         /\ Len(deflection) = num_points
         /\ Len(moment) = num_points
         /\ Len(shear) = num_points
         /\ x[1] = Station(Zero, FZero)
         /\ x[num_points] = Station(length, Float(length))
         /\ \A i \in 1 .. num_points - 1 :
               /\ FLe(x[i][3], x[i + 1][3])
               /\ RLe(x[i], x[i + 1])
               /\ RSub(x[i + 1], x[i]) = RSub(x[2], x[1])

C3_Witness ==
    /\ pc = "returned"
    /\ boundary_conditions = "fixed_fixed" /\ load_type = "moment"
    /\ num_points >= 4
    /\ Len(shear) = num_points /\ x[num_points][3] = Float(length)

\* C4: in the eight implemented combinations, with the load on the beam
\* (0 <= a <= L for a point or moment load) and N >= 2, the deflection is zero
\* at the first station, and also at the last one when the right end is
\* supported (simply_supported, fixed_fixed).
C4_ZeroDeflectionAtSupports ==
    (Solved /\ num_points >= 2
        /\ Implemented(boundary_conditions, load_type)
        /\ (load_type \in {"point", "moment"} => OnBeam(load_position)))
      => /\ deflection[1] = Zero
         /\ (boundary_conditions \in {"simply_supported", "fixed_fixed"}
                => deflection[num_points] = Zero)

C4_Witness ==
    /\ pc = "returned"
    /\ boundary_conditions = "fixed_fixed" /\ load_type = "point"
    /\ RLt(Zero, load_position) /\ RLt(load_position, length)
    /\ num_points >= 3
    /\ deflection[2] # Zero
    /\ deflection[1] = Zero /\ deflection[num_points] = Zero

\* C5 as claimed: for a simply supported beam under a point load, the
\* deflection is zero at the first and at the last station for every position
\* the call accepts, positions below 0 and above L included.
C5_AsClaimed ==
    (Solved /\ num_points >= 2
        /\ boundary_conditions = "simply_supported" /\ load_type = "point")
      => /\ deflection[1] = Zero
         /\ deflection[num_points] = Zero

\* C5 as amended: the deflection at the first station is zero exactly when
\* the load is not left of the beam (a >= 0), and at the last station exactly
\* when it is not right of the beam (a <= L); so both are zero for a load on
\* the beam, 0 <= a <= L.
C5_EndDeflections ==
    (Solved /\ num_points >= 2
        /\ boundary_conditions = "simply_supported" /\ load_type = "point")
      => /\ (deflection[1] = Zero) <=> RLe(Zero, load_position)
         /\ (deflection[num_points] = Zero) <=> RLe(load_position, length)

C5_Witness ==
    /\ pc = "returned"
    /\ boundary_conditions = "simply_supported" /\ load_type = "point"
    /\ RLt(Zero, load_position) /\ RLt(load_position, length)
    /\ num_points >= 3
    /\ deflection[1] = Zero /\ deflection[num_points] = Zero
    /\ deflection[2] # Zero

\* C6: in every returned result max_deflection bounds |deflection[i]| at every
\* station and is attained at one, likewise max_moment for the moments; both
\* are >= 0, and each is 0 exactly when its array is 0 everywhere.
IsMaxAbs(mx, a) ==
    /\ \A i \in 1 .. Len(a) : RLe(RAbs(a[i]), mx)
    /\ \E i \in 1 .. Len(a) : RAbs(a[i]) = mx
    /\ RLe(Zero, mx)
    /\ (mx = Zero) <=> (\A i \in 1 .. Len(a) : a[i] = Zero)

C6_MaximaAreMaxAbs ==
    pc = "returned"
      => /\ IsMaxAbs(max_deflection, deflection)
         /\ IsMaxAbs(max_moment, moment)

C6_Witness ==
    /\ pc = "returned"
    /\ \E i \in 1 .. Len(deflection) :
          /\ RLt(deflection[i], Zero)
          /\ max_deflection = RNeg(deflection[i])
    /\ \E i, j \in 1 .. Len(moment) :
          /\ RLt(moment[i], Zero) /\ RLt(Zero, moment[j])
          /\ max_moment = RNeg(moment[i])

\* C9: a cantilever with a point load at its free end (a = L), N >= 2:
\* max_deflection = |P| L^3 / (3 E I) and is the deflection magnitude at the
\* last station, max_moment = |P| L and is the moment magnitude at the first
\* station, and the deflection at the first station is 0.
C9_CantileverEndLoad ==
    (pc = "returned" /\ num_points >= 2
        /\ boundary_conditions = "cantilever" /\ load_type = "point"
        /\ load_position = length)
      => /\ max_deflection =
                RDiv(RMul(RAbs(load_magnitude), RCube(length)),
                     RProd(<<R(3), E, second_moment>>))
         /\ RAbs(deflection[num_points]) = max_deflection
         /\ max_moment = RMul(RAbs(load_magnitude), length)
         /\ RAbs(moment[1]) = max_moment
         /\ deflection[1] = Zero

C9_Witness ==
    /\ pc = "returned" /\ num_points >= 3
    /\ boundary_conditions = "cantilever" /\ load_type = "point"
    /\ load_position = length
    /\ RLt(load_magnitude, Zero)
    /\ max_deflection # Zero /\ max_moment # Zero

\* C10: a cantilever under a uniformly distributed load, N >= 2:
\* max_deflection = |w| L^4 / (8 E I) and is the deflection magnitude at the
\* last station, max_moment = |w| L^2 / 2 and is the moment magnitude at the
\* first station, and the deflection at the first station is 0.
C10_CantileverDistributed ==
    (pc = "returned" /\ num_points >= 2
        /\ boundary_conditions = "cantilever" /\ load_type = "distributed")
      => /\ max_deflection =
                RDiv(RMul(RAbs(load_magnitude), RSq(RSq(length))),
                     RProd(<<R(8), E, second_moment>>))
         /\ RAbs(deflection[num_points]) = max_deflection
         /\ max_moment = RDiv(RMul(RAbs(load_magnitude), RSq(length)), R(2))
         /\ RAbs(moment[1]) = max_moment
         /\ deflection[1] = Zero

C10_Witness ==
    /\ pc = "returned" /\ num_points >= 3
    /\ boundary_conditions = "cantilever" /\ load_type = "distributed"
    /\ RLt(load_magnitude, Zero)
    /\ max_deflection # Zero /\ max_moment # Zero

\* |p - q| < q * pct / 100, as q (1 - pct/100) < p < q (1 + pct/100)
WithinPercent(p, q, pct) ==
    /\ RLt(RMul(q, Rat(100 - pct, 100)), p)
    /\ RLt(p, RMul(q, Rat(100 + pct, 100)))

CentreLoad == load_position = RDiv(length, R(2))

\* C7 as claimed: simply supported, point load at L/2, any N >= 2:
\* max_deflection is within 1% of |P| L^3 / (48 E I) and max_moment within
\* 1% of |P| L / 4.
C7_Expected_Deflection ==
    RDiv(RMul(RAbs(load_magnitude), RCube(length)), RProd(<<R(48), E, second_moment>>))
C7_Expected_Moment == RDiv(RMul(RAbs(load_magnitude), length), R(4))

C7_AsClaimed ==
    (pc = "returned" /\ num_points >= 2
        /\ boundary_conditions = "simply_supported" /\ load_type = "point"
        /\ CentreLoad)
      => /\ WithinPercent(max_deflection, C7_Expected_Deflection, 1)
         /\ WithinPercent(max_moment, C7_Expected_Moment, 1)

\* C7 as amended: for an odd N >= 3 midspan is a station, and max_deflection
\* equals |P| L^3 / (48 E I) and max_moment equals |P| L / 4 (so both are
\* within 1%).  For an even N >= 2 no station is at midspan and the maxima
\* are those of the two stations next to it, L u / 2 away with u = 1 / (N - 1):
\* max_moment = (|P| L / 4) (1 - u), which is within 1% exactly from N = 102
\* on, and max_deflection = (|P| L^3 / (48 E I)) (1 - 3 u^2 / 2 + u^3 / 2),
\* which is within 1% exactly from N = 14 on.
C7_EvenMoment ==
    RMul(C7_Expected_Moment, Rat(num_points - 2, num_points - 1))
C7_EvenDeflection ==
    RMul(C7_Expected_Deflection,
         RAdd(RSub(R(1), Rat(3, 2 * (num_points - 1) ^ 2)),
              Rat(1, 2 * (num_points - 1) ^ 3)))

C7_CentreLoadMaxima ==
    (pc = "returned" /\ num_points >= 2
        /\ boundary_conditions = "simply_supported" /\ load_type = "point"
        /\ CentreLoad)
      => IF num_points % 2 = 1
         THEN /\ max_deflection = C7_Expected_Deflection
              /\ max_moment = C7_Expected_Moment
              /\ WithinPercent(max_deflection, C7_Expected_Deflection, 1)
              /\ WithinPercent(max_moment, C7_Expected_Moment, 1)
         ELSE /\ max_moment = C7_EvenMoment
              /\ max_deflection = C7_EvenDeflection
              /\ WithinPercent(max_moment, C7_Expected_Moment, 1)
                    <=> num_points >= 102
              /\ WithinPercent(max_deflection, C7_Expected_Deflection, 1)
                    <=> num_points >= 14

\* (the first even station count whose sampled moment is within 1%)
C7_Witness ==
    /\ pc = "returned" /\ num_points = 102
    /\ boundary_conditions = "simply_supported" /\ load_type = "point"
    /\ CentreLoad
    /\ RLt(load_magnitude, Zero)
    /\ max_moment = RMul(C7_Expected_Moment, Rat(100, 101))
    /\ WithinPercent(max_moment, C7_Expected_Moment, 1)
    /\ WithinPercent(max_deflection, C7_Expected_Deflection, 1)
    /\ max_deflection # C7_Expected_Deflection

\* C8: simply supported, uniformly distributed load, N = 100 (the default):
\* max_deflection is within 1% of 5 |w| L^4 / (384 E I) and max_moment is
\* within 1% of |w| L^2 / 8.
C8_SimplySupportedDistributed ==
    (pc = "returned" /\ num_points = DefaultNumPoints
        /\ boundary_conditions = "simply_supported" /\ load_type = "distributed")
      => /\ WithinPercent(max_deflection,
                RDiv(RProd(<<R(5), RAbs(load_magnitude), RSq(RSq(length))>>),
                     RProd(<<R(384), E, second_moment>>)), 1)
         /\ WithinPercent(max_moment,
                RDiv(RMul(RAbs(load_magnitude), RSq(length)), R(8)), 1)

C8_Witness ==
    /\ pc = "returned" /\ num_points = DefaultNumPoints
    /\ boundary_conditions = "simply_supported" /\ load_type = "distributed"
    /\ length = R(99) /\ E = R(198) /\ load_magnitude = R(-1)
    /\ RAbs(deflection[50]) = max_deflection
    /\ RLt(max_moment, RDiv(RMul(RAbs(load_magnitude), RSq(length)), R(8)))

\* C11: fixed-fixed, point load at L/2, N = 100 (the default): max_deflection
\* is within 5% of |P| L^3 / (192 E I), and the deflection is zero at the
\* first and at the last station.
C11_Expected_Deflection ==
    RDiv(RMul(RAbs(load_magnitude), RCube(length)), RProd(<<R(192), E, second_moment>>))

C11_FixedFixedCentreLoad ==
    (pc = "returned" /\ num_points = DefaultNumPoints
        /\ boundary_conditions = "fixed_fixed" /\ load_type = "point"
        /\ CentreLoad)
      => /\ WithinPercent(max_deflection, C11_Expected_Deflection, 5)
         /\ deflection[1] = Zero
         /\ deflection[num_points] = Zero

\* (midspan is no station at N = 100: the maximum is at the two stations next
\* to it and is strictly below the closed form)
C11_Witness ==
    /\ pc = "returned" /\ num_points = DefaultNumPoints
    /\ boundary_conditions = "fixed_fixed" /\ load_type = "point"
    /\ CentreLoad
    /\ length = R(99) /\ second_moment = R(198) /\ load_magnitude = R(2)
    /\ RAbs(deflection[50]) = max_deflection
    /\ RAbs(deflection[51]) = max_deflection
    /\ RLt(max_deflection, C11_Expected_Deflection)
    /\ deflection[1] = Zero /\ deflection[num_points] = Zero

\* C12: for a moment load that passed validation, under simply_supported,
\* cantilever and fixed_fixed alike, for every position (on the beam or off
\* it) and every station count, the shear array has one entry per station and
\* every entry is 0.
C12_MomentLoadNoShear ==
    (Solved /\ load_type = "moment"
        /\ boundary_conditions \in {"simply_supported", "cantilever", "fixed_fixed"})
      => /\ Len(shear) = num_points
         /\ \A i \in 1 .. Len(shear) : shear[i] = Zero

C12_Witness ==
    /\ pc = "returned" /\ load_type = "moment"
    /\ boundary_conditions = "simply_supported"
    /\ num_points >= 3
    /\ RLt(Zero, load_position) /\ RLt(load_position, length)
    /\ moment[2] # Zero /\ deflection[2] # Zero
    /\ \A i \in 1 .. num_points : shear[i] = Zero

\* C13: a point load at L/2 on a simply supported or fixed-fixed beam, N >= 2:
\* the deflection array reads the same from both ends, deflection[i] =
\* deflection[N - 1 - i] for every index i (0-based; the entries i + 1 and
\* N - i of the sequence).
C13_SymmetricDeflection ==
    (Solved /\ num_points >= 2
        /\ boundary_conditions \in {"simply_supported", "fixed_fixed"}
        /\ load_type = "point" /\ CentreLoad)
      => \A i \in 0 .. num_points - 1 :
            deflection[i + 1] = deflection[(num_points - 1 - i) + 1]

C13_Witness ==
    /\ pc = "returned" /\ num_points = 4
    /\ boundary_conditions = "fixed_fixed" /\ load_type = "point" /\ CentreLoad
    /\ deflection[2] = deflection[3] /\ deflection[2] # Zero
    /\ deflection[1] = deflection[4]
    /\ moment[2] = moment[3] /\ shear[2] # shear[3]

\* C14: fixed_fixed with a moment load, valid geometry, nonzero magnitude, a
\* position supplied and at least one station: no statement of the call
\* raises; no sub-solver runs, so deflection, moment and shear have N entries
\* that are all 0, and the result has max_deflection = 0 and max_moment = 0.
AllZero(a) == \A i \in 1 .. Len(a) : a[i] = Zero

C14_FixedFixedMomentZeros ==
    (GeometryValid /\ load_magnitude # Zero /\ load_position # None
        /\ boundary_conditions = "fixed_fixed" /\ load_type = "moment"
        /\ num_points >= 1)
      => /\ pc # "raised" /\ error = NoError
         /\ Solved =>
               /\ Len(deflection) = num_points /\ AllZero(deflection)
               /\ Len(moment) = num_points /\ AllZero(moment)
               /\ Len(shear) = num_points /\ AllZero(shear)
         /\ pc = "returned" => (max_deflection = Zero /\ max_moment = Zero)

C14_Witness ==
    /\ pc = "returned"
    /\ boundary_conditions = "fixed_fixed" /\ load_type = "moment"
    /\ RLt(Zero, load_position) /\ RLt(load_position, length)
    /\ num_points >= 3
    /\ AllZero(deflection) /\ AllZero(moment) /\ AllZero(shear)
    /\ max_deflection = Zero /\ max_moment = Zero

\* ======================================================================
\* ColumnTheory.euler_buckling
\* ======================================================================
\* Numbers.  euler_buckling computes with Python floats and np.float64
\* (IEEE binary64), and the model computes with the same floats: every
\* product, quotient and root below is rounded as the code rounds it.
\* np.pi ** 2 = 0x1.3bd3cc9be45dep+3
PiSquared == Fin(<<8943, 18878, 31353, 78>>, -48)
\* 0.7 = 0x1.6666666666666p-1
SevenTenths == Fin(<<13107, 26214, 19660, 89>>, -52)

\* ------------------------------------------------------------ arguments
MaxColLen == 4     \* column lengths are drawn from 25/8 * (-1 .. MaxColLen)
Extreme == 150     \* very small and very large arguments are 2^(-+ 4 Extreme)

\* Lengths: multiples of 25/8 (with the second moments 2^-16 and 2^-20, for
\* which radius_of_gyration is 1/16 or 1/32, the slenderness ratios are the
\* multiples of 50 K and of 100 K, so 50, 100 and 200 are hit exactly for the
\* factors 1.0, 0.5 and 2.0), 5500, 11000 and 22000 (with the second moment
\* 77^4 and the factor 0.7 the quotients 0.7 * length / 77 are 50, 100 and
\* 200 as real numbers), a short and a long column (2^-200, 2^200), a very
\* short and a very long one, and the largest power of two.
ColumnLengths ==
    {F(25 * k, 8, 0) : k \in -1 .. MaxColLen}
        \cup {F(5500, 1, 0), F(5500, 1, 1), F(5500, 1, 2)}
        \cup {F(1, 1, -200), F(1, 1, 200)}
        \cup {F(1, 1, -4 * Extreme), F(1, 1, 4 * Extreme)}
        \cup {F(1, 1, MaxExponent)}

\* a call of euler_buckling has none of euler_bernoulli's other arguments,
\* arrays and maxima
NoBeam ==
    /\ load_type = "" /\ load_magnitude = None /\ load_position = None
    /\ boundary_conditions = "" /\ num_points = 0
    /\ x = Unbound /\ deflection = Unbound /\ moment = Unbound /\ shear = Unbound
    /\ max_deflection = None /\ max_moment = None

\* The second moments are fourth powers, whose two nested square roots are
\* exact, and 3.0, whose roots are rounded.
InitColumn ==
    /\ length \in ColumnLengths
    /\ E \in {F(-1, 1, 0), FZero, F(3, 1, 0), F(1, 1, -200), F(1, 1, 200),
              F(1, 1, 4 * Extreme)}
    /\ second_moment \in
          {F(-1, 1, 0), FZero, F(1, 1, -20), F(1, 1, -16), F(3, 1, 0),
           F(35153041, 1, 0), F(1, 1, -200), F(1, 1, 200),
           F(1, 1, -4 * Extreme), F(1, 1, 4 * Extreme)}
    /\ end_conditions \in {"pinned", "fixed", "fixed_free", "fixed_pinned", "other"}
    /\ safety_factor \in {F(-1, 1, 0), FZero, F(1, 1, 0), F(3, 2, 0),
                          F(1, 1, -200), F(1, 1, -4 * Extreme)}
    /\ pc = "check_length"
    /\ K = None /\ effective_length = None /\ critical_load = None
    /\ design_load = None /\ estimated_area = None
    /\ radius_of_gyration = None /\ slenderness_ratio = None
    /\ critical_stress = None /\ recommendation = ""
    /\ error = NoError
    /\ NoBeam
    /\ method = "euler_buckling" /\ positional = <<>> /\ previous = NoCall

\* ----------------------------------------------------------- validation
CheckLength ==
    /\ pc = "check_length"
    /\ IF NotPositive(length)
       THEN Raise("Length must be positive")
       ELSE Goto("check_E")

\* (variant: a zero elastic modulus slips through, E < 0 for E <= 0)
CheckE_ZeroAccepted ==
    /\ pc = "check_E"
    /\ IF E.neg
       THEN Raise("Elastic modulus must be positive")
       ELSE Goto("check_second_moment")

CheckE ==
    /\ pc = "check_E"
    /\ IF NotPositive(E)
       THEN Raise("Elastic modulus must be positive")
       ELSE Goto("check_second_moment")

CheckSecondMoment ==
    /\ pc = "check_second_moment"
    /\ IF NotPositive(second_moment)
       THEN Raise("Second moment of area must be positive")
       ELSE Goto("check_safety_factor")

CheckSafetyFactor ==
    /\ pc = "check_safety_factor"
    /\ IF NotPositive(safety_factor)
       THEN Raise("Safety factor must be positive")
       ELSE Goto("lookup_K")

\* ---------------------------------------------------------- computation
\* line 77: the effective length factors, 1.0, 0.5, 2.0 and 0.7
\* (variant: the factors of fixed and fixed_free are exchanged)
K_factors_FixedSwapped ==
    [pinned |-> F(1, 1, 0), fixed |-> F(2, 1, 0), fixed_free |-> F(1, 2, 0),
     fixed_pinned |-> SevenTenths]

K_factors ==
    [pinned |-> F(1, 1, 0), fixed |-> F(1, 2, 0), fixed_free |-> F(2, 1, 0),
     fixed_pinned |-> SevenTenths]

\* a lookup with a default, K_factors.get(end_conditions, 1.0), in place of
\* the subscript of line 84
LookupK_DefaultPinned ==
    /\ pc = "lookup_K"
    /\ K' = IF end_conditions \notin DOMAIN K_factors
            THEN F(1, 1, 0) ELSE K_factors[end_conditions]
    /\ pc' = "effective_length"
    /\ UNCHANGED <<call, args, arrays, maxima, error, end_conditions,
                   safety_factor, effective_length, critical_load,
                   design_load, estimated_area, radius_of_gyration,
                   slenderness_ratio, critical_stress, recommendation>>

\* line 84.  An end condition that is no key of the table raises KeyError,
\* whose message is the key's repr.
LookupK ==
    /\ pc = "lookup_K"
    /\ IF end_conditions \notin DOMAIN K_factors
       THEN Raise("'" \o end_conditions \o "'")
       ELSE /\ K' = K_factors[end_conditions]
            /\ pc' = "effective_length"
            /\ UNCHANGED <<call, args, arrays, maxima, error, end_conditions,
                           safety_factor, effective_length, critical_load,
                           design_load, estimated_area, radius_of_gyration,
                           slenderness_ratio, critical_stress, recommendation>>

\* line 85
EffectiveLength ==
    /\ pc = "effective_length"
    /\ effective_length' = FMul(K, length)
    /\ pc' = "critical_load"
    /\ UNCHANGED <<call, args, arrays, maxima, error, end_conditions, safety_factor,
                   K, critical_load, design_load, estimated_area,
                   radius_of_gyration, slenderness_ratio, critical_stress,
                   recommendation>>

OverflowMsg == "(34, 'Numerical result out of range')"
ZeroDivisionMsg == "float division by zero"

\* The outcomes of v ** 2 for a Python float v: a value, or OverflowError
\* where the result is above the range (an inf or nan v raises nothing).
\* Python's float ** 2 is the C library's pow(x, 2.0), which is accurate to
\* within 0.54 units in the last place (glibc) and so returns the float
\* nearest to x * x, except that where x * x lies within 1/16 of a unit of
\* the middle between two floats it may return either of them (CloseToTie,
\* for the exact square m * 2^e).
float_pow2(v) ==
    IF v.kind # "fin" THEN {[error |-> NoError, value |-> [v EXCEPT !.neg = FALSE]]}
    ELSE LET OrOverflow(r) ==
                 IF r = Inf THEN [error |-> OverflowMsg, value |-> NaN]
                 ELSE [error |-> NoError, value |-> r]
             \* low is the dropped digits of m, half the middle between two floats
             Near(low, half, drop) ==
                 BCmp(BMulSmall(IF BCmp(low, half) >= 0 THEN BSub(low, half)
                                ELSE BSub(half, low), 16),
                      BShl(<<1>>, drop)) <= 0
             CloseToTie(m, drop) ==
                 /\ drop > 0
                 /\ Near(BSub(m, BShl(BShr(m, drop), drop)),
                         BShl(<<1>>, drop - 1), drop)
             Square(m, e) ==
                 {OrOverflow(Rounded(m, e, up)) :
                     up \in IF CloseToTie(m, Dropped(m, e)) THEN BOOLEAN
                            ELSE {RoundsUp(m, e, FALSE)}}
         IN  Square(BMul(v.m, v.m), 2 * v.e)

\* line 89, (np.pi**2 * E * second_moment) / (effective_length**2), on Python
\* floats: the products give inf above the range; the power raises
\* OverflowError above the range and gives 0.0 below it; the division raises
\* ZeroDivisionError for a divisor 0.0 and gives nan for inf / inf.  The
\* outcomes are those of the power.
\* (variant: the effective length is not squared)
critical_load_of_NotSquared(effective_length_, E_, second_moment_) ==
    IF effective_length_ = FZero
    THEN {[error |-> ZeroDivisionMsg, value |-> NaN]}
    ELSE {[error |-> NoError,
           value |-> FDiv(FMul(FMul(PiSquared, E_), second_moment_),
                          effective_length_)]}

critical_load_of(effective_length_, E_, second_moment_) ==
    {IF p.error # NoError THEN p
     ELSE IF p.value = FZero THEN [error |-> ZeroDivisionMsg, value |-> NaN]
     ELSE [error |-> NoError,
           value |-> FDiv(FMul(FMul(PiSquared, E_), second_moment_), p.value)] :
        p \in float_pow2(effective_length_)}

CriticalLoad ==
    /\ pc = "critical_load"
    /\ \E r \in critical_load_of(effective_length, E, second_moment) :
          IF r.error # NoError
          THEN Raise(r.error)
          ELSE /\ critical_load' = r.value
               /\ pc' = "design_load"
               /\ UNCHANGED <<call, args, arrays, maxima, error, end_conditions,
                              safety_factor, K, effective_length, design_load,
                              estimated_area, radius_of_gyration,
                              slenderness_ratio, critical_stress,
                              recommendation>>

\* (variant: the critical load is multiplied by the safety factor)
DesignLoad_Multiplied ==
    /\ pc = "design_load"
    /\ design_load' = FMul(critical_load, safety_factor)
    /\ pc' = "estimated_area"
    /\ UNCHANGED <<call, args, arrays, maxima, error, end_conditions, safety_factor,
                   K, effective_length, critical_load, estimated_area,
                   radius_of_gyration, slenderness_ratio, critical_stress,
                   recommendation>>

\* line 92
DesignLoad ==
    /\ pc = "design_load"
    /\ design_load' = FDiv(critical_load, safety_factor)
    /\ pc' = "estimated_area"
    /\ UNCHANGED <<call, args, arrays, maxima, error, end_conditions, safety_factor,
                   K, effective_length, critical_load, estimated_area,
                   radius_of_gyration, slenderness_ratio, critical_stress,
                   recommendation>>

\* line 99
EstimatedArea ==
    /\ pc = "estimated_area"
    /\ estimated_area' = sqrt(second_moment)
    /\ pc' = "radius_of_gyration"
    /\ UNCHANGED <<call, args, arrays, maxima, error, end_conditions, safety_factor,
                   K, effective_length, critical_load, design_load,
                   radius_of_gyration, slenderness_ratio, critical_stress,
                   recommendation>>

\* line 100
RadiusOfGyration ==
    /\ pc = "radius_of_gyration"
    /\ radius_of_gyration' = sqrt(FDiv(second_moment, estimated_area))
    /\ pc' = "slenderness_ratio"
    /\ UNCHANGED <<call, args, arrays, maxima, error, end_conditions, safety_factor,
                   K, effective_length, critical_load, design_load,
                   estimated_area, slenderness_ratio, critical_stress,
                   recommendation>>

\* line 103
SlendernessRatio ==
    /\ pc = "slenderness_ratio"
    /\ slenderness_ratio' = FDiv(effective_length, radius_of_gyration)
    /\ pc' = "critical_stress"
    /\ UNCHANGED <<call, args, arrays, maxima, error, end_conditions, safety_factor,
                   K, effective_length, critical_load, design_load,
                   estimated_area, radius_of_gyration, critical_stress,
                   recommendation>>

\* line 106
CriticalStress ==
    /\ pc = "critical_stress"
    /\ critical_stress' = FDiv(critical_load, estimated_area)
    /\ pc' = "recommendation"
    /\ UNCHANGED <<call, args, arrays, maxima, error, end_conditions, safety_factor,
                   K, effective_length, critical_load, design_load,
                   estimated_area, radius_of_gyration, slenderness_ratio,
                   recommendation>>

ShortColumn == "Short column - check crushing/yielding instead of buckling"
IntermediateColumn == "Intermediate column - consider inelastic buckling"
LongColumn == "Long column - Euler buckling applicable"
VerySlender == "Very slender - verify assumptions and consider imperfections"

\* (variant: the bands include their upper limits, <= for <)
recommendation_of_InclusiveUpper(slenderness_ratio_) ==
    IF ~FLt(F(50, 1, 0), slenderness_ratio_) THEN ShortColumn
    ELSE IF ~FLt(F(100, 1, 0), slenderness_ratio_) THEN IntermediateColumn
    ELSE IF ~FLt(F(200, 1, 0), slenderness_ratio_) THEN LongColumn
    ELSE VerySlender

\* lines 109-120
recommendation_of(slenderness_ratio_) ==
    IF FLt(slenderness_ratio_, F(50, 1, 0)) THEN ShortColumn
    ELSE IF FLt(slenderness_ratio_, F(100, 1, 0)) THEN IntermediateColumn
    ELSE IF FLt(slenderness_ratio_, F(200, 1, 0)) THEN LongColumn
    ELSE VerySlender

\* lines 109-131: the recommendation, and the return of the result
Recommendation ==
    /\ pc = "recommendation"
    /\ recommendation' = recommendation_of(slenderness_ratio)
    /\ pc' = "returned"
    /\ UNCHANGED <<call, args, arrays, maxima, error, end_conditions, safety_factor,
                   K, effective_length, critical_load, design_load,
                   estimated_area, radius_of_gyration, slenderness_ratio,
                   critical_stress>>

NextColumn ==
    \/ CheckLength
    \/ CheckE
    \/ CheckSecondMoment
    \/ CheckSafetyFactor
    \/ LookupK
    \/ EffectiveLength
    \/ CriticalLoad
    \/ DesignLoad
    \/ EstimatedArea
    \/ RadiusOfGyration
    \/ SlendernessRatio
    \/ CriticalStress
    \/ Recommendation

SpecColumn == InitColumn /\ [][NextColumn]_vars

\* ======================================================================
\* Properties of euler_buckling
\* ======================================================================
LengthMsg == "Length must be positive"
ModulusMsg == "Elastic modulus must be positive"
SecondMomentMsg == "Second moment of area must be positive"
SafetyFactorMsg == "Safety factor must be positive"

Finite(v) == v.kind = "fin"
\* v > 0 (False for nan)
Positive(v) == v.kind # "nan" /\ ~v.neg /\ v # FZero
ColumnValid ==
    Positive(length) /\ Positive(E) /\ Positive(second_moment)
        /\ Positive(safety_factor)
\* the statements of euler_buckling, in program order
ColumnSteps ==
    <<"check_length", "check_E", "check_second_moment", "check_safety_factor",
      "lookup_K", "effective_length", "critical_load", "design_load",
      "estimated_area", "radius_of_gyration", "slenderness_ratio",
      "critical_stress", "recommendation">>
\* the call is past statement number k (it ran, or the call ended before it)
PastStep(k) == \A i \in 1 .. k : pc # ColumnSteps[i]

\* C15: a length <= 0 ends the call with the length message; else an E <= 0
\* with the modulus message; else a second_moment <= 0 with the second-moment
\* message; else a safety_factor <= 0 with the safety-factor message.  Zero
\* is rejected like a negative value, the four messages differ, and of several
\* invalid fields the first in this order is the one reported.
C15_FirstInvalidField ==
    /\ (PastStep(1) /\ NotPositive(length))
          => (pc = "raised" /\ error = LengthMsg)
    /\ (PastStep(2) /\ Positive(length) /\ NotPositive(E))
          => (pc = "raised" /\ error = ModulusMsg)
    /\ (PastStep(3) /\ Positive(length) /\ Positive(E) /\ NotPositive(second_moment))
          => (pc = "raised" /\ error = SecondMomentMsg)
    /\ (PastStep(4) /\ Positive(length) /\ Positive(E) /\ Positive(second_moment)
            /\ NotPositive(safety_factor))
          => (pc = "raised" /\ error = SafetyFactorMsg)
    /\ Cardinality({LengthMsg, ModulusMsg, SecondMomentMsg, SafetyFactorMsg}) = 4

C15_Witness ==
    /\ pc = "raised" /\ error = ModulusMsg
    /\ Positive(length)
    /\ E = FZero /\ second_moment = F(-1, 1, 0) /\ safety_factor = FZero

\* Real numbers for the statements below: a record with the fields m and e
\* is the real number m * 2^e (a finite float v >= 0 is one), XMul is the
\* exact product, and Close(a, b, t) says |a - b| <= 2^-t * b.
XMul(a, b) == [m |-> BMul(a.m, b.m), e |-> a.e + b.e]
Close(a, b, t) ==
    IF a.m = <<>> \/ b.m = <<>> THEN a.m = b.m
    ELSE /\ BBitLen(a.m) + a.e - (BBitLen(b.m) + b.e) \in -1 .. 1
         /\ LET lo == IF a.e < b.e THEN a.e ELSE b.e
                p == BShl(a.m, a.e - lo)
                q == BShl(b.m, b.e - lo)
                away == IF BCmp(p, q) >= 0 THEN BSub(p, q) ELSE BSub(q, p)
            IN  BCmp(BShl(away, t), q) <= 0
\* a float in the normal range, 2^(MinExponent + MantissaBits - 1) <= v < inf,
\* where every operation is exact to half a unit in the last place
Normal(v) ==
    /\ v.kind = "fin" /\ ~v.neg /\ v # FZero
    /\ BBitLen(v.m) + v.e - 1 >= MinExponent + MantissaBits - 1
Two == F(2, 1, 0)
Four == F(4, 1, 0)

\* C16: in every returned result K_factor is the table value of the end
\* condition (pinned 1.0, fixed 0.5, fixed_free 2.0, fixed_pinned the float
\* 0.7), effective_length is the float product K_factor * length, which is
\* the real product to half a unit in the last place, and critical_load is
\* an outcome of np.pi**2 * E * second_moment / effective_length**2 computed
\* from the end condition, the length, E and second_moment alone (the safety
\* factor does not enter); where the two products, the square and the
\* quotient are in the normal range, critical_load * effective_length^2 is
\* np.pi**2 * E * second_moment to within 2^-50 of it.
C16_K ==
    CASE end_conditions = "pinned" -> F(1, 1, 0)
      [] end_conditions = "fixed" -> FDiv(F(1, 1, 0), F(2, 1, 0))
      [] end_conditions = "fixed_free" -> F(2, 1, 0)
      [] end_conditions = "fixed_pinned" -> FDiv(F(7, 1, 0), F(10, 1, 0))
      [] OTHER -> NaN

C16_InNormalRange ==
    /\ Normal(FMul(PiSquared, E))
    /\ Normal(FMul(FMul(PiSquared, E), second_moment))
    /\ Normal(effective_length)
    /\ \A p \in float_pow2(effective_length) :
          p.error = NoError /\ Normal(p.value)
    /\ Normal(critical_load)

C16_CriticalLoadFormula ==
    pc = "returned"
      => /\ K = C16_K
         /\ effective_length = FMul(K, length)
         /\ Normal(effective_length)
               => Close(effective_length, XMul(K, length), MantissaBits)
         /\ critical_load \in
               {r.value : r \in critical_load_of(FMul(C16_K, length), E,
                                                 second_moment)}
         /\ C16_InNormalRange
               => Close(XMul(critical_load,
                             XMul(effective_length, effective_length)),
                        XMul(PiSquared, XMul(E, second_moment)), 50)

C16_Witness ==
    /\ pc = "returned" /\ end_conditions = "fixed_pinned"
    /\ length = F(25, 4, 0) /\ E = F(3, 1, 0) /\ second_moment = F(1, 1, -16)
    /\ safety_factor = F(3, 2, 0)
    /\ K = SevenTenths /\ effective_length = F(35, 8, 0)
    /\ C16_InNormalRange
    /\ critical_load = Fin(<<28793, 12674, 144, 198>>, -68)

\* C17: in every returned result design_load is the float quotient
\* critical_load / safety_factor: where both are in the normal range,
\* design_load * safety_factor is critical_load to within 2^-52 of it;
\* design_load is inf only when critical_load is inf or the safety factor is
\* below 1; and design_load = critical_load when safety_factor = 1.0.
C17_DesignLoad ==
    pc = "returned"
      => /\ design_load = FDiv(critical_load, safety_factor)
         /\ (Normal(critical_load) /\ Normal(design_load))
               => Close(XMul(design_load, safety_factor), critical_load, 52)
         /\ design_load = Inf
               => (critical_load = Inf \/ FLt(safety_factor, F(1, 1, 0)))
         /\ safety_factor = F(1, 1, 0) => design_load = critical_load

C17_Witness ==
    /\ pc = "returned" /\ end_conditions = "fixed"
    /\ safety_factor = F(3, 2, 0)
    /\ Normal(critical_load) /\ Normal(design_load)
    /\ design_load # critical_load
    /\ Close(XMul(design_load, F(3, 1, 0)), XMul(critical_load, Two), 52)

\* C18: take a call that returned a critical_load in the normal range, the
\* square of its effective length being in the normal range too.  The call
\* with the same E, second_moment, end condition and safety factor and twice
\* the length passes the same validation; each critical_load it can compute
\* in the normal range is a quarter of the first call's to within 2^-50, and
\* exactly a quarter of it is among them if that is in the normal range.  The
\* call with twice the second moment can compute exactly twice the
\* critical_load if that is finite, and each critical_load it can compute is
\* twice the first call's to within 2^-50.  For a length between 2^-200 and
\* 2^200 the call with twice the length raises nothing.
C18_DoubleLength ==
    critical_load_of(FMul(K_factors[end_conditions], FMul(Two, length)),
                     E, second_moment)
C18_DoubleSecondMoment ==
    critical_load_of(FMul(K_factors[end_conditions], length),
                     E, FMul(Two, second_moment))
\* 2^-200 <= v <= 2^200
Ordinary(v) == FLe(F(1, 1, -200), v) /\ FLe(v, F(1, 1, 200))
C18_Case ==
    /\ pc = "returned" /\ Normal(critical_load)
    /\ \A p \in float_pow2(effective_length) :
          p.error = NoError /\ Normal(p.value)

C18_Scaling ==
    C18_Case
      => /\ ~NotPositive(FMul(Two, length))
         /\ ~NotPositive(FMul(Two, second_moment))
         /\ \A r \in C18_DoubleLength :
               (r.error = NoError /\ Normal(r.value))
                  => Close(XMul(Four, r.value), critical_load, 50)
         /\ Normal(FDiv(critical_load, Four))
               => [error |-> NoError, value |-> FDiv(critical_load, Four)]
                     \in C18_DoubleLength
         /\ Ordinary(length) => \A r \in C18_DoubleLength : r.error = NoError
         /\ \A r \in C18_DoubleSecondMoment :
               (r.error = NoError /\ Normal(r.value))
                  => Close(r.value, XMul(Two, critical_load), 50)
         /\ (Normal(FMul(FMul(PiSquared, E), second_moment))
                /\ Finite(FMul(Two, critical_load)))
               => [error |-> NoError, value |-> FMul(Two, critical_load)]
                     \in C18_DoubleSecondMoment

C18_Witness ==
    /\ C18_Case /\ end_conditions = "fixed_pinned"
    /\ safety_factor = F(3, 2, 0) /\ E = F(3, 1, 0)
    /\ length = F(25, 4, 0)
    /\ [error |-> NoError, value |-> FDiv(critical_load, Four)]
          \in C18_DoubleLength
    /\ [error |-> NoError, value |-> FMul(Two, critical_load)]
          \in C18_DoubleSecondMoment
    /\ FDiv(critical_load, Four) # critical_load

\* C19: in every returned result estimated_area is the float square root of
\* second_moment and radius_of_gyration that of second_moment /
\* estimated_area (its fourth power is second_moment to within 2^-50),
\* slenderness_ratio is the float quotient effective_length /
\* radius_of_gyration, and the recommendation is the one of four different
\* texts that belongs to the band of the slenderness ratio: short below 50,
\* intermediate from 50 to below 100, long from 100 to below 200, very
\* slender from 200 on.  The slenderness ratio, and with it the
\* recommendation, is a function of the end condition, the length and the
\* second moment: neither E nor the safety factor enters.
C19_Slenderness ==
    FDiv(FMul(C16_K, length), sqrt(FDiv(second_moment, sqrt(second_moment))))
C19_AtLeast(limit) == FLe(F(limit, 1, 0), slenderness_ratio)
C19_Below(limit) == FLt(slenderness_ratio, F(limit, 1, 0))
C19_Square(v) == XMul(v, v)

C19_RecommendationBands ==
    pc = "returned"
      => /\ estimated_area = sqrt(second_moment)
         /\ Close(C19_Square(estimated_area), second_moment, 50)
         /\ radius_of_gyration = sqrt(FDiv(second_moment, estimated_area))
         /\ Close(C19_Square(C19_Square(radius_of_gyration)), second_moment, 50)
         /\ slenderness_ratio = C19_Slenderness
         /\ Normal(slenderness_ratio)
               => Close(XMul(slenderness_ratio, radius_of_gyration),
                        effective_length, 52)
         /\ recommendation = ShortColumn <=> C19_Below(50)
         /\ recommendation = IntermediateColumn
               <=> (C19_AtLeast(50) /\ C19_Below(100))
         /\ recommendation = LongColumn
               <=> (C19_AtLeast(100) /\ C19_Below(200))
         /\ recommendation = VerySlender <=> C19_AtLeast(200)
         /\ Cardinality({ShortColumn, IntermediateColumn, LongColumn,
                         VerySlender}) = 4

C19_Witness ==
    /\ pc = "returned" /\ end_conditions = "fixed"
    /\ second_moment = F(1, 1, -16) /\ radius_of_gyration = F(1, 16, 0)
    /\ slenderness_ratio = F(100, 1, 0)
    /\ recommendation = LongColumn
    /\ E = F(3, 1, 0) /\ safety_factor = F(3, 2, 0)

\* C20 as claimed: for every call with positive length, E, second_moment and
\* safety_factor (and one of the four end conditions) nothing is raised,
\* effective_length, estimated_area and radius_of_gyration are finite and
\* positive once bound, and in the result the seven numbers are finite and
\* the recommendation is not empty.
ColumnInBand(k) == pc # "raised" /\ PastStep(k)
AllFinite ==
    /\ Finite(critical_load) /\ Finite(design_load) /\ Finite(critical_stress)
    /\ Finite(effective_length) /\ Finite(K) /\ Finite(slenderness_ratio)
    /\ Finite(radius_of_gyration)

C20_AsClaimed ==
    (ColumnValid /\ end_conditions \in DOMAIN K_factors)
      => /\ pc # "raised"
         /\ ColumnInBand(6) => (Finite(effective_length) /\ Positive(effective_length))
         /\ ColumnInBand(9) => (Finite(estimated_area) /\ Positive(estimated_area))
         /\ ColumnInBand(10)
               => (Finite(radius_of_gyration) /\ Positive(radius_of_gyration))
         /\ pc = "returned" => (AllFinite /\ recommendation # "")

\* C20 as amended: the same for the calls whose length, E, second_moment and
\* safety_factor are all between 2^-200 and 2^200; the seven numbers of the
\* result are then also positive.
C20_FiniteWithinRange ==
    (ColumnValid /\ end_conditions \in DOMAIN K_factors
        /\ Ordinary(length) /\ Ordinary(E) /\ Ordinary(second_moment)
        /\ Ordinary(safety_factor))
      => /\ pc # "raised" /\ error = NoError
         /\ ColumnInBand(6) => (Finite(effective_length) /\ Positive(effective_length))
         /\ ColumnInBand(7) => (Finite(critical_load) /\ Positive(critical_load))
         /\ ColumnInBand(9) => (Finite(estimated_area) /\ Positive(estimated_area))
         /\ ColumnInBand(10)
               => (Finite(radius_of_gyration) /\ Positive(radius_of_gyration))
         /\ pc = "returned"
               => /\ AllFinite
                  /\ Positive(design_load) /\ Positive(critical_stress)
                  /\ Positive(slenderness_ratio) /\ Positive(K)
                  /\ recommendation \in {ShortColumn, IntermediateColumn,
                                         LongColumn, VerySlender}

\* (the largest design load of the range: np.pi**2 * 2^1002)
C20_Witness ==
    /\ pc = "returned" /\ end_conditions = "fixed"
    /\ length = F(1, 1, -200) /\ E = F(1, 1, 200)
    /\ second_moment = F(1, 1, 200) /\ safety_factor = F(1, 1, -200)
    /\ AllFinite
    /\ design_load = FMul(PiSquared, F(1, 1, 1002))

\* ======================================================================
\* Calls of either method
\* ======================================================================
\* One call of euler_bernoulli or one call of euler_buckling.
SpecCalls == (Init \/ InitColumn) /\ [][Next \/ NextColumn]_vars

\* the preconditions of euler_bernoulli (lines 60-68) and of euler_buckling
\* (lines 67-74)
BeamPreconditions ==
    /\ GeometryValid
    /\ load_magnitude # Zero
    /\ load_type \in {"point", "moment"} => load_position # None
BeamMsgs == {GeometryMsg, MagnitudeMsg, PointPositionMsg, MomentPositionMsg}
ColumnMsgs == {LengthMsg, ModulusMsg, SecondMomentMsg, SafetyFactorMsg}
BeamChecks ==
    {"check_geometry", "check_magnitude", "check_point_position",
     "check_moment_position"}
ColumnChecks ==
    {"check_length", "check_E", "check_second_moment", "check_safety_factor"}
\* no station, array or maximum of euler_bernoulli is bound
NothingComputed ==
    /\ x = Unbound /\ deflection = Unbound /\ moment = Unbound /\ shear = Unbound
    /\ max_deflection = None /\ max_moment = None

\* C21, first half: a call with a violated precondition never leaves the
\* checks other than by raising that check's error, with nothing computed.
C21_ChecksFirst ==
    /\ (method = "euler_bernoulli" /\ ~BeamPreconditions /\ pc \notin BeamChecks)
          => (pc = "raised" /\ error \in BeamMsgs /\ NothingComputed)
    /\ (method = "euler_buckling" /\ ~ColumnValid /\ pc \notin ColumnChecks)
          => (pc = "raised" /\ error \in ColumnMsgs /\ K = None
                 /\ critical_load = None /\ recommendation = "")

\* C21, second half: an error outcome arises from the precondition checks
\* only: every raised call carries the message of one of its checks.
C21_ErrorsFromChecksOnly ==
    /\ (method = "euler_bernoulli" /\ pc = "raised") => error \in BeamMsgs
    /\ (method = "euler_buckling" /\ pc = "raised") => error \in ColumnMsgs

\* C21: in both methods a violated precondition ends the call in its error
\* before any station, sub-solver, output field or result, and every error
\* outcome comes from the precondition checks.
C21_AsClaimed == C21_ChecksFirst /\ C21_ErrorsFromChecksOnly

\* ======================================================================
\* The stub methods of the theory classes
\* ======================================================================
\* Every method below has the signature (self, *args, **kwargs) and a body
\* that is a docstring followed by one statement: "raise" (of a
\* NotImplementedError with the message given) or "pass" (the call then
\* returns None).
\* beam_theory.py, lines 335-409
BeamTheory_stubs ==
    {[name |-> "BeamTheory.timoshenko", body |-> "raise",
     message |-> "Timoshenko beam theory not yet implemented"],
     [name |-> "BeamTheory.reddy_bickford", body |-> "raise",
     message |-> "Reddy-Bickford beam theory not yet implemented"],
     [name |-> "BeamTheory.levinson", body |-> "raise",
     message |-> "Levinson beam theory not yet implemented"],
     [name |-> "BeamTheory.nonlinear_beam", body |-> "raise",
     message |-> "Nonlinear beam theory not yet implemented"]}

\* column_theory.py, lines 133-188
ColumnTheory_stubs ==
    {[name |-> "ColumnTheory.rankine_gordon", body |-> "pass",
     message |-> ""],
     [name |-> "ColumnTheory.johnson_parabolic", body |-> "pass",
     message |-> ""],
     [name |-> "ColumnTheory.plastic_buckling", body |-> "pass",
     message |-> ""]}

\* displacement_method.py, lines 6-82
DisplacementMethod_stubs ==
    {[name |-> "DisplacementMethod.slope_deflection", body |-> "pass",
     message |-> ""],
     [name |-> "DisplacementMethod.moment_distribution", body |-> "pass",
     message |-> ""],
     [name |-> "DisplacementMethod.stiffness_matrix", body |-> "pass",
     message |-> ""],
     [name |-> "DisplacementMethod.finite_element", body |-> "pass",
     message |-> ""]}

\* dynamic_theory.py, lines 6-84
DynamicTheory_stubs ==
    {[name |-> "DynamicTheory.modal_analysis", body |-> "pass",
     message |-> ""],
     [name |-> "DynamicTheory.frequency_response", body |-> "pass",
     message |-> ""],
     [name |-> "DynamicTheory.transient_response", body |-> "pass",
     message |-> ""],
     [name |-> "DynamicTheory.nonlinear_dynamic", body |-> "pass",
     message |-> ""]}

\* energy_method.py, lines 6-61
EnergyMethod_stubs ==
    {[name |-> "EnergyMethod.castiglianos_theorem", body |-> "raise",
     message |-> "Castigliano's theorem not yet implemented"],
     [name |-> "EnergyMethod.minimum_potential_energy", body |-> "raise",
     message |-> "Minimum potential energy method not yet implemented"],
     [name |-> "EnergyMethod.rayleigh_ritz", body |-> "raise",
     message |-> "Rayleigh-Ritz method not yet implemented"]}

\* force_method.py, lines 6-64
ForceMethod_stubs ==
    {[name |-> "ForceMethod.consistent_deformation", body |-> "pass",
     message |-> ""],
     [name |-> "ForceMethod.virtual_work_unit_load", body |-> "pass",
     message |-> ""],
     [name |-> "ForceMethod.three_moment_theorem", body |-> "pass",
     message |-> ""]}

\* fracture_theory.py, lines 6-44
FractureTheory_stubs ==
    {[name |-> "FractureTheory.lefm", body |-> "pass",
     message |-> ""],
     [name |-> "FractureTheory.elastic_plastic_fracture", body |-> "pass",
     message |-> ""]}

\* material_theory.py, lines 6-84
MaterialTheory_stubs ==
    {[name |-> "MaterialTheory.linear_elastic", body |-> "pass",
     message |-> ""],
     [name |-> "MaterialTheory.elastic_plastic", body |-> "pass",
     message |-> ""],
     [name |-> "MaterialTheory.viscoelastic", body |-> "pass",
     message |-> ""],
     [name |-> "MaterialTheory.orthotropic_anisotropic", body |-> "pass",
     message |-> ""]}

\* nonlinear_theory.py, lines 6-64
NonlinearTheory_stubs ==
    {[name |-> "NonlinearTheory.geometric_nonlinear", body |-> "pass",
     message |-> ""],
     [name |-> "NonlinearTheory.material_nonlinear", body |-> "pass",
     message |-> ""],
     [name |-> "NonlinearTheory.contact_nonlinear", body |-> "pass",
     message |-> ""]}

\* plane_theory.py, lines 6-44
PlaneTheory_stubs ==
    {[name |-> "PlaneTheory.plane_stress", body |-> "pass",
     message |-> ""],
     [name |-> "PlaneTheory.plane_strain", body |-> "pass",
     message |-> ""]}

\* plate_shell_theory.py, lines 6-64
PlateShellTheory_stubs ==
    {[name |-> "PlateShellTheory.kirchhoff_thin", body |-> "pass",
     message |-> ""],
     [name |-> "PlateShellTheory.mindlin_reissner_thick", body |-> "pass",
     message |-> ""],
     [name |-> "PlateShellTheory.membrane", body |-> "pass",
     message |-> ""]}

\* specialized_theory.py, lines 6-64
SpecializedTheory_stubs ==
    {[name |-> "SpecializedTheory.composite_laminate", body |-> "pass",
     message |-> ""],
     [name |-> "SpecializedTheory.smart_materials", body |-> "pass",
     message |-> ""],
     [name |-> "SpecializedTheory.multi_physics", body |-> "pass",
     message |-> ""]}

\* stability_theory.py, lines 6-64
StabilityTheory_stubs ==
    {[name |-> "StabilityTheory.linear_stability", body |-> "pass",
     message |-> ""],
     [name |-> "StabilityTheory.nonlinear_stability", body |-> "pass",
     message |-> ""],
     [name |-> "StabilityTheory.bifurcation_theory", body |-> "pass",
     message |-> ""]}

Stubs ==
    BeamTheory_stubs
        \cup ColumnTheory_stubs
        \cup DisplacementMethod_stubs
        \cup DynamicTheory_stubs
        \cup EnergyMethod_stubs
        \cup ForceMethod_stubs
        \cup FractureTheory_stubs
        \cup MaterialTheory_stubs
        \cup NonlinearTheory_stubs
        \cup PlaneTheory_stubs
        \cup PlateShellTheory_stubs
        \cup SpecializedTheory_stubs
        \cup StabilityTheory_stubs

\* --------------------------------------------------------------- bound
MaxArgs == 2     \* a stub is called with 0 .. MaxArgs positional arguments

\* the positional arguments of a stub call: numbers and None, in any number
\* (the methods read neither them nor the keyword arguments)
RECURSIVE Tuples(_)
Tuples(n) ==
    IF n = 0 THEN {<<>>}
    ELSE LET shorter == Tuples(n - 1)
         IN  shorter \cup {Append(t, v) : t \in {u \in shorter : Len(u) = n - 1},
                                         v \in {None, R(1)}}

InitStub ==
    /\ method \in {s.name : s \in Stubs}
    /\ positional \in Tuples(MaxArgs)
    /\ previous = NoCall
    /\ pc = "call_stub"
    /\ error = NoError
    /\ length = None /\ E = None /\ second_moment = None
    /\ NoBeam
    /\ NoColumn

\* the body of the method called
body_of(method_) == CHOOSE s \in Stubs : s.name = method_

\* The call of a stub: its one statement runs, whatever the arguments are.
CallStub ==
    /\ pc = "call_stub"
    /\ IF body_of(method).body = "raise"
       THEN Raise(body_of(method).message)
       ELSE Goto("returned")

SpecStubs == InitStub /\ [][CallStub]_vars

\* C22: every stub method, called with any arguments, ends by raising a
\* not-implemented error with a message; none returns.  This is stated for
\* the stubs of BeamTheory, of ColumnTheory and of every other theory class.
C22_AsClaimed ==
    (method \in {s.name : s \in Stubs} /\ pc # "call_stub")
      => /\ pc = "raised"
         /\ error # NoError

\* ======================================================================
\* Two calls of euler_bernoulli in a row
\* ======================================================================
\* BeamTheory keeps no state (its __init__ is `pass`), so a second call on the
\* same object starts like a first one.  The caller keeps the outcome of the
\* first call in `previous` and calls again with one argument changed.

\* what a finished call leaves with its caller: the dictionary of lines
\* 126-133, or the exception
Outcome ==
    [method |-> method, args |-> args, pc |-> pc, error |-> error,
     x |-> x, deflection |-> deflection, moment |-> moment, shear |-> shear,
     max_deflection |-> max_deflection, max_moment |-> max_moment]

\* the factors a load is multiplied by between the two calls
Factors == {R(-2), R(-1), R(2), R(3)}

\* the first calls: the arguments of Init with a positive length, the smallest
\* or the largest stiffness, and no station, one station or the most stations
InitPair ==
    /\ Init
    /\ RLt(Zero, length)
    /\ E \in {R(1), R(MaxStiff)}
    /\ second_moment \in {R(1), R(MaxStiff)}
    /\ num_points \in {0, 1, MaxN}

\* The call made after a finished one: the outcome is kept and the method is
\* entered again, its locals unbound.
CallAgain ==
    /\ method = "euler_bernoulli"
    /\ pc \in {"returned", "raised"}
    /\ previous = NoCall
    /\ previous' = Outcome
    /\ pc' = "check_geometry"
    /\ x' = Unbound /\ deflection' = Unbound /\ moment' = Unbound
    /\ shear' = Unbound
    /\ max_deflection' = None /\ max_moment' = None
    /\ error' = NoError
    /\ UNCHANGED <<column, method, positional>>

\* ... with another load_position (or none)
CallWithPosition ==
    /\ CallAgain
    /\ load_position' \in Positions \ {load_position}
    /\ UNCHANGED <<length, E, second_moment, load_type, load_magnitude,
                   boundary_conditions, num_points>>

\* ... with the load multiplied by a factor
CallWithMagnitude ==
    /\ CallAgain
    /\ \E k \in Factors : load_magnitude' = RMul(k, load_magnitude)
    /\ UNCHANGED <<length, E, second_moment, load_type, load_position,
                   boundary_conditions, num_points>>

\* ... with another elastic modulus, or another second moment of area
CallWithStiffness ==
    /\ CallAgain
    /\ \/ /\ E' \in {R(k) : k \in 1 .. MaxStiff + 1} \ {E}
          /\ UNCHANGED second_moment
       \/ /\ second_moment' \in {R(k) : k \in 1 .. MaxStiff + 1} \ {second_moment}
          /\ UNCHANGED E
    /\ UNCHANGED <<length, load_type, load_magnitude, load_position,
                   boundary_conditions, num_points>>

NextPair ==
    \/ Next
    \/ CallWithPosition
    \/ CallWithMagnitude
    \/ CallWithStiffness

SpecPair == InitPair /\ [][NextPair]_vars

\* the call made before differs from this one in the argument number k of
\* args only
OnlyDiffers(k) ==
    /\ previous.method = "euler_bernoulli"
    /\ \A i \in 1 .. Len(args) : (i # k) <=> (previous.args[i] = args[i])
Finished == pc \in {"returned", "raised"}

\* C23: two calls with load_type "distributed" that differ in load_position
\* only (None, or any number on or off the beam) end alike, whatever the
\* boundary condition and the other arguments are: both return, with the same
\* x, deflection, moment, shear, max_deflection and max_moment, or both raise
\* the same error.
C23_PositionIgnored ==
    (Finished /\ load_type = "distributed" /\ OnlyDiffers(6))
      => /\ pc = previous.pc
         /\ error = previous.error
         /\ x = previous.x
         /\ deflection = previous.deflection
         /\ moment = previous.moment
         /\ shear = previous.shear
         /\ max_deflection = previous.max_deflection
         /\ max_moment = previous.max_moment

C23_Witness ==
    /\ pc = "returned" /\ load_type = "distributed"
    /\ boundary_conditions = "fixed_fixed"
    /\ OnlyDiffers(6)
    /\ previous.args[6] = None /\ RLt(length, load_position)
    /\ num_points = MaxN
    /\ max_deflection # Zero
    /\ deflection = previous.deflection

\* ======================================================================
\* Further properties of euler_bernoulli
\* ======================================================================
\* a station strictly left of the position a, and one strictly right of it
StationLt(xi, a) == FLt(xi[3], Float(a))
StationGt(xi, a) == FLt(Float(a), xi[3])

\* the stations that lie exactly at the load position
AtLoad == {i \in 1 .. Len(x) : x[i][3] = Float(load_position)}

\* C24: at a station with x = a exactly, the deflection and the moment of the
\* five point-load and moment-load sub-solvers are the values of their left
\* (x <= a) formulas at a; the shear of the simply supported point load is
\* exactly 0 there (P (L - a) / L at the stations left of a, -P a / L at those
\* right of a), that of the cantilever point load is -P and that of the
\* fixed-fixed point load is R1 = P b^2 (3a + b) / L^3.
C24_AtLoadStation ==
    (Solved /\ load_type \in {"point", "moment"}
        /\ Implemented(boundary_conditions, load_type))
      => LET L == length
             P == load_magnitude
             a == load_position
             b == RSub(L, a)
             EI == RMul(E, second_moment)
             R1 == RDiv(RProd(<<P, b, b, RAdd(RMul(R(3), a), b)>>), RProd(<<L, L, L>>))
             M1 == RDiv(RProd(<<P, a, b, b>>), RMul(L, L))
             bc == boundary_conditions
         IN  /\ \A i \in AtLoad :
                /\ (bc = "simply_supported" /\ load_type = "point")
                      => /\ deflection[i] =
                               RDiv(RProd(<<P, b, a,
                                            RSub(RSub(RMul(L, L), RMul(b, b)), RMul(a, a))>>),
                                    RProd(<<R(6), EI, L>>))
                         /\ moment[i] = RDiv(RProd(<<P, b, a>>), L)
                         /\ shear[i] = Zero
                /\ (bc = "simply_supported" /\ load_type = "moment")
                      => /\ deflection[i] =
                               RDiv(RProd(<<P, b, a, RSub(RMul(L, L), RMul(a, a))>>),
                                    RProd(<<R(6), EI, L, L>>))
                         /\ moment[i] = RDiv(RProd(<<P, b, a>>), RMul(L, L))
                /\ (bc = "cantilever" /\ load_type = "point")
                      => /\ deflection[i] = RDiv(RProd(<<P, a, a, a>>), RMul(R(3), EI))
                         /\ moment[i] = Zero
                         /\ shear[i] = RNeg(P)
                /\ (bc = "cantilever" /\ load_type = "moment")
                      => /\ deflection[i] = RDiv(RProd(<<P, a, a>>), RMul(R(2), EI))
                         /\ moment[i] = RNeg(P)
                /\ (bc = "fixed_fixed" /\ load_type = "point")
                      => /\ deflection[i] =
                               RDiv(RSub(RDiv(RProd(<<R1, a, a, a>>), R(6)),
                                         RDiv(RProd(<<M1, a, a>>), R(2))), EI)
                         /\ moment[i] = RSub(RMul(R1, a), M1)
                         /\ shear[i] = R1
             /\ (bc = "simply_supported" /\ load_type = "point")
                   => \A i \in 1 .. Len(x) :
                         /\ StationLt(x[i], a) => shear[i] = RDiv(RMul(P, b), L)
                         /\ StationGt(x[i], a)
                               => shear[i] = RNeg(RDiv(RMul(P, a), L))

C24_Witness ==
    /\ pc = "returned"
    /\ boundary_conditions = "simply_supported" /\ load_type = "point"
    /\ RLt(Zero, load_position) /\ RLt(load_position, length)
    /\ \E i \in AtLoad :
          /\ 1 < i /\ i < num_points
          /\ shear[i] = Zero /\ moment[i] = max_moment
          /\ RLt(Zero, shear[i - 1]) /\ RLt(shear[i + 1], Zero)

\* the load is strictly inside the span
Inside(a) == RLt(Zero, a) /\ RLt(a, length)

\* the value at xi = a of the deflection formula used left of the load
\* (xi <= a), and of the one used right of it (xi > a), for the sub-solver of
\* the call
C25_Left ==
    LET L == length
        P == load_magnitude
        a == load_position
        at == Station(a, Float(a))
        bc == boundary_conditions
    IN  IF bc = "simply_supported" /\ load_type = "point"
        THEN ss_point_deflection(at, L, E, second_moment, P, a)
        ELSE IF bc = "simply_supported" /\ load_type = "moment"
        THEN ss_moment_deflection(at, L, E, second_moment, P, a)
        ELSE IF bc = "cantilever" /\ load_type = "point"
        THEN cantilever_point_deflection(at, E, second_moment, P, a)
        ELSE IF bc = "cantilever" /\ load_type = "moment"
        THEN cantilever_moment_deflection(at, E, second_moment, P, a)
        ELSE ff_point_deflection(at, L, E, second_moment, P, a)
C25_Right ==
    LET L == length
        P == load_magnitude
        a == load_position
        at == Station(a, Float(a))
        bc == boundary_conditions
    IN  IF bc = "simply_supported" /\ load_type = "point"
        THEN ss_point_deflection_right(at, L, E, second_moment, P, a)
        ELSE IF bc = "simply_supported" /\ load_type = "moment"
        THEN ss_moment_deflection_right(at, L, E, second_moment, P, a)
        ELSE IF bc = "cantilever" /\ load_type = "point"
        THEN cantilever_point_deflection_right(at, E, second_moment, P, a)
        ELSE IF bc = "cantilever" /\ load_type = "moment"
        THEN cantilever_moment_deflection_right(at, E, second_moment, P, a)
        ELSE ff_point_deflection_right(at, L, E, second_moment, P, a)
C25_Piecewise ==
    /\ Solved /\ load_type \in {"point", "moment"}
    /\ Implemented(boundary_conditions, load_type)
    /\ Inside(load_position)

\* C25: the deflection is continuous across the load point: in each of the
\* five piecewise sub-solvers, for a load strictly inside the span, the right
\* formula at x = a equals the left formula at x = a (which is the deflection
\* of a station lying at a).
C25_AsClaimed ==
    C25_Piecewise
      => /\ C25_Right = C25_Left
         /\ \A i \in AtLoad : deflection[i] = C25_Right

\* what holds: the simply supported beam under an applied moment is
\* continuous at a exactly when a = L / 2, the other four always
C25_ContinuousButOne ==
    C25_Piecewise
      => (C25_Right = C25_Left
            <=> \/ ~(boundary_conditions = "simply_supported" /\ load_type = "moment")
                \/ RMul(R(2), load_position) = length)

\* stations i and i + 1 lie strictly on the same side of the load point (for a
\* distributed load there is no load point)
SameSide(i) ==
    \/ load_type = "distributed"
    \/ StationLt(x[i], load_position) /\ StationLt(x[i + 1], load_position)
    \/ StationGt(x[i], load_position) /\ StationGt(x[i + 1], load_position)

\* the moment rises from station i to i + 1 by the step times s times the mean
\* of the two shears
SlopeIs(s, i) ==
    RSub(moment[i + 1], moment[i])
        = RProd(<<s, RSub(x[i + 1], x[i]),
                  RDiv(RAdd(shear[i], shear[i + 1]), R(2))>>)

C26_Case ==
    /\ Solved
    /\ load_type \in {"point", "distributed"}
    /\ boundary_conditions \in {"simply_supported", "cantilever", "fixed_fixed"}
    /\ load_type = "point" => OnBeam(load_position)

\* C26: the shear is the slope of the moment in the six point-load and
\* distributed-load sub-solvers: for adjacent stations i, i + 1 strictly on the
\* same side of the load, moment[i+1] - moment[i] =
\* (x[i+1] - x[i]) (shear[i] + shear[i+1]) / 2.
C26_AsClaimed ==
    C26_Case => \A i \in 1 .. Len(x) - 1 : SameSide(i) => SlopeIs(R(1), i)

\* what holds: the relation as claimed in the simply supported sub-solvers and
\* for the fixed-fixed point load, and with the opposite sign in the
\* cantilever sub-solvers and for the fixed-fixed distributed load
C26_SignPerSubSolver ==
    C26_Case
      => \A i \in 1 .. Len(x) - 1 :
            SameSide(i)
              => IF \/ boundary_conditions = "simply_supported"
                    \/ boundary_conditions = "fixed_fixed" /\ load_type = "point"
                 THEN SlopeIs(R(1), i)
                 ELSE SlopeIs(R(-1), i)

C27_Case ==
    /\ Solved
    /\ Implemented(boundary_conditions, load_type)
    /\ RLt(Zero, load_magnitude)
    /\ load_type \in {"point", "moment"} => OnBeam(load_position)

\* C27: one sign convention for the deflection: under a positive load (on the
\* beam, for a point or moment load) the deflection is >= 0 at every station
\* in all eight implemented sub-solvers.
C27_AsClaimed ==
    C27_Case => \A i \in 1 .. Len(x) : RLe(Zero, deflection[i])

\* what holds: the deflection under a positive load is >= 0 everywhere in six
\* sub-solvers, <= 0 everywhere for the fixed-fixed point load, and for the
\* cantilever under an applied moment >= 0 up to x = 2a and < 0 beyond
C27_SignPerSubSolver ==
    C27_Case
      => \A i \in 1 .. Len(x) :
            IF boundary_conditions = "fixed_fixed" /\ load_type = "point"
            THEN RLe(deflection[i], Zero)
            ELSE IF boundary_conditions = "cantilever" /\ load_type = "moment"
            THEN RLe(Zero, deflection[i])
                    <=> RLe(x[i], RMul(R(2), load_position))
            ELSE RLe(Zero, deflection[i])

\* a boundary_conditions value that is none of the three, or a load_type
\* value that is none of the three
UnknownString ==
    \/ boundary_conditions \notin {"simply_supported", "cantilever", "fixed_fixed"}
    \/ load_type \notin {"point", "distributed", "moment"}
\* the message of the ValueError of np.max for an array of no element
EmptyMaxMsg == "zero-size array to reduction operation maximum which has no identity"

\* C28 as claimed: with valid L, E, I and magnitude, a boundary_conditions or
\* load_type value that is none of the three raises nothing, and the call
\* returns deflection, moment and shear that are zero at every station, with
\* max_deflection = 0 and max_moment = 0.
C28_AsClaimed ==
    (GeometryValid /\ load_magnitude # Zero /\ UnknownString)
      => /\ pc # "raised" /\ error = NoError
         /\ Solved =>
               (AllZero(deflection) /\ AllZero(moment) /\ AllZero(shear))
         /\ pc = "returned" => (max_deflection = Zero /\ max_moment = Zero)

\* C28 as amended: the strings are not validated, but the position check is
\* made before they are looked at.  With valid L, E, I and magnitude and an
\* unknown string: a load_type "point" or "moment" without a position ends
\* the call with the position error, whatever boundary_conditions is, and
\* nothing is computed; every other call raises nothing up to the maxima,
\* with deflection, moment and shear that are zero at each of the N stations,
\* and returns max_deflection = 0 and max_moment = 0 if there is a station,
\* while np.max raises for N = 0.
C28_UnknownStringsGiveZeros ==
    (GeometryValid /\ load_magnitude # Zero /\ UnknownString)
      => IF load_type \in {"point", "moment"} /\ load_position = None
         THEN PastValidation
                 => /\ pc = "raised" /\ NothingComputed
                    /\ error = (IF load_type = "point" THEN PointPositionMsg
                                                       ELSE MomentPositionMsg)
         ELSE /\ pc = "raised" => (num_points = 0 /\ error = EmptyMaxMsg)
              /\ pc # "raised" => error = NoError
              /\ Solved =>
                    /\ Len(x) = num_points
                    /\ Len(deflection) = num_points /\ AllZero(deflection)
                    /\ Len(moment) = num_points /\ AllZero(moment)
                    /\ Len(shear) = num_points /\ AllZero(shear)
              /\ pc = "returned"
                    => /\ num_points >= 1
                       /\ max_deflection = Zero /\ max_moment = Zero
              /\ (Finished /\ num_points >= 1) => pc = "returned"

C28_Witness ==
    /\ pc = "returned"
    /\ boundary_conditions = "simply_supported" /\ load_type = "other"
    /\ load_position = None
    /\ num_points = MaxN
    /\ AllZero(deflection) /\ AllZero(moment) /\ AllZero(shear)
    /\ max_deflection = Zero /\ max_moment = Zero

\* ======================================================================
\* Further properties of euler_buckling
\* ======================================================================
\* the message of the KeyError a dictionary raises for a missing key: the
\* key's repr
KeyErrorMsg(key) == "'" \o key \o "'"

\* the message of the first violated check of lines 67-74
FirstInvalidMsg ==
    IF ~Positive(length) THEN LengthMsg
    ELSE IF ~Positive(E) THEN ModulusMsg
    ELSE IF ~Positive(second_moment) THEN SecondMomentMsg
    ELSE SafetyFactorMsg

\* C29: an end_conditions value that is no key of the K-factor table is not
\* caught by the validation: with the four numeric arguments valid the call
\* ends at the table lookup with the KeyError of that key, which is none of
\* the four ValueErrors, and with nothing computed or returned; a call with an
\* invalid numeric argument as well ends with that argument's ValueError, so
\* the KeyError occurs only when all four checks have passed.
C29_UnknownEndCondition ==
    /\ (method = "euler_buckling" /\ end_conditions \notin DOMAIN K_factors
            /\ ColumnValid /\ PastStep(5))
          => /\ pc = "raised"
             /\ error = KeyErrorMsg(end_conditions)
             /\ error \notin ColumnMsgs
             /\ K = None /\ effective_length = None /\ critical_load = None
             /\ design_load = None /\ critical_stress = None
             /\ recommendation = ""
    /\ (method = "euler_buckling" /\ end_conditions \notin DOMAIN K_factors
            /\ ~ColumnValid /\ PastStep(4))
          => (pc = "raised" /\ error = FirstInvalidMsg)
    /\ (method = "euler_buckling" /\ pc = "raised"
            /\ error = KeyErrorMsg(end_conditions))
          => (ColumnValid /\ end_conditions \notin DOMAIN K_factors)

C29_Witness ==
    /\ pc = "raised" /\ error = "'other'"
    /\ end_conditions = "other"
    /\ ColumnValid
    /\ length = F(25, 8, 0) /\ safety_factor = F(3, 2, 0)
    /\ K = None


\* the factor between the loads of the two calls, and the ratio of the
\* stiffness E * second_moment of the first call to that of the second
LoadFactor == RDiv(load_magnitude, previous.args[5])
StiffnessRatio ==
    RDiv(RMul(previous.args[2], previous.args[3]), RMul(E, second_moment))
Scaled(a, k, b) ==
    /\ Len(a) = Len(b)
    /\ \A i \in 1 .. Len(a) : a[i] = RMul(k, b[i])

\* C30: of two calls that differ in load_magnitude only, by a nonzero factor
\* k, the second ends as the first, and where they return the second's
\* deflection, moment and shear are k times the first's at every station and
\* its max_deflection and max_moment |k| times the first's; of two calls that
\* differ in E only or in second_moment only, the second ends as the first,
\* with the same moment, shear and max_moment and with the deflection and
\* max_deflection of the first multiplied by the ratio of the first call's
\* E * second_moment to the second's.
C30_LinearInLoad ==
    /\ (Finished /\ OnlyDiffers(5) /\ previous.args[5] # Zero
            /\ load_magnitude # Zero)
          => /\ pc = previous.pc
             /\ error = previous.error
             /\ pc = "returned" =>
                  /\ x = previous.x
                  /\ Scaled(deflection, LoadFactor, previous.deflection)
                  /\ Scaled(moment, LoadFactor, previous.moment)
                  /\ Scaled(shear, LoadFactor, previous.shear)
                  /\ max_deflection =
                        RMul(RAbs(LoadFactor), previous.max_deflection)
                  /\ max_moment = RMul(RAbs(LoadFactor), previous.max_moment)
    /\ (Finished /\ (OnlyDiffers(2) \/ OnlyDiffers(3))
            /\ RLt(Zero, previous.args[2]) /\ RLt(Zero, previous.args[3])
            /\ RLt(Zero, E) /\ RLt(Zero, second_moment))
          => /\ pc = previous.pc
             /\ error = previous.error
             /\ pc = "returned" =>
                  /\ x = previous.x
                  /\ moment = previous.moment
                  /\ shear = previous.shear
                  /\ max_moment = previous.max_moment
                  /\ Scaled(deflection, StiffnessRatio, previous.deflection)
                  /\ max_deflection =
                        RMul(StiffnessRatio, previous.max_deflection)

C30_Witness ==
    /\ pc = "returned" /\ num_points = MaxN
    /\ boundary_conditions = "fixed_fixed" /\ load_type = "distributed"
    /\ OnlyDiffers(5)
    /\ LoadFactor = R(-2)
    /\ previous.max_moment # Zero
    /\ max_moment = RMul(R(2), previous.max_moment)
    /\ moment[1] = RMul(R(-2), previous.moment[1])
    /\ moment[1] # Zero

====
